---- MODULE Spec2Model ----
(***************************************************************************)
(* Block connection rules of pkg/chain/validate.go.                        *)
(*                                                                         *)
(* checkConnectBlock is modelled as a sequence of steps, one per check of  *)
(* the function, run against a UTXO view.  The backing store, the          *)
(* deployment tracker, the signature-operation counter, the sequence-lock  *)
(* calculator, the checkpoint table and the script engine are external     *)
(* collaborators: each answers nondeterministically at the step that       *)
(* consults it.                                                            *)
(*                                                                         *)
(* Amounts are scaled (SatoshiPerBitcoin) so that every sum stays inside   *)
(* the model checker's integers; heights and hashes are small identifiers. *)
(***************************************************************************)
EXTENDS Integers, Sequences, FiniteSets, TLC

\* ------------------------------------------------------------------------
\* Scaled quantities and model bounds
\* ------------------------------------------------------------------------

\* util.SatoshiPerBitcoin, scaled down
SatoshiPerBitcoin == 4
\* math.MaxUint32, scaled down: the index of the null outpoint
MaxUint32 == 7
\* highest coinbase output value offered to the model
MaxCbValue == 9

\* ------------------------------------------------------------------------
\* Chain parameters and package constants
\* ------------------------------------------------------------------------

MainNet == "MainNet"
TestNet3 == "TestNet3"
Nets == {MainNet, TestNet3}

\* hashes of blocks, as identifiers
zeroHash == "0000"
GenesisHash == "genesis"
block91842Hash == "0a4d"
block91880Hash == "0743"
OtherHash == "other"
ParentHash == "parent"
StrayHash == "stray"

\* heights of the two blocks exempt from BIP0030
Height91842 == 91842
Height91880 == 91880

\* netparams.Params.BIP0034Height
BIP0034HeightMain == 100000
BIP0034HeightTest == 3
BIP0034Height(net) == IF net = MainNet THEN BIP0034HeightMain ELSE BIP0034HeightTest
\* netparams.Params.BIP0066Height, BIP0065Height
BIP0066Height == 2
BIP0065Height == 3
\* netparams.Params.CoinbaseMaturity
CoinbaseMaturity == 2
\* netparams.Params.SubsidyReductionInterval
SubsidyReductionInterval == 2
\* txscript.Bip16Activation, Unix seconds
Bip16Activation == 50
\* node.parent.CalcPastMedianTime(), Unix seconds
ParentMedianTime == 40
\* blockweight MaxBlockSigOpsCost, scaled down
MaxBlockSigOpsCost == 4

\* baseSubsidy is the starting subsidy amount for mined blocks.
baseSubsidy == 2 * SatoshiPerBitcoin
\* util.MaxSatoshi, scaled down
MaxSatoshi == 21 * SatoshiPerBitcoin

\* fork.List[1]: the hard fork
ActivationHeight == 250000
TestnetStart == 150000

\* hardfork.Payees, hardfork.TestnetPayees: amount and 20-byte script address
AddressOf(k) == [j \in 1..20 |-> k]
Payees == << [Amount |-> 2, Address |-> AddressOf(31)],
             [Amount |-> 1, Address |-> AddressOf(32)] >>
TestnetPayees == << [Amount |-> 1, Address |-> AddressOf(41)] >>
\* hardfork.CoreAmount, hardfork.TestnetCoreAmount
CoreAmount == 3
TestnetCoreAmount == 2
\* hardfork.CorePubkeyBytes, hardfork.TestnetCorePubkeyBytes
CorePubkeyBytes == << <<2, 11, 12>>, <<3, 21, 22>> >>
TestnetCorePubkeyBytes == << <<2, 51, 52>> >>

\* ------------------------------------------------------------------------
\* Errors
\* ------------------------------------------------------------------------

NoError == [kind |-> "none", code |-> "none"]
ruleError(c) == [kind |-> "RuleError", code |-> c]
AssertError == [kind |-> "AssertError", code |-> "inconsistent view"]
CollabError(c) == [kind |-> "Collaborator", code |-> c]
\* a Go run-time panic (index or slice bounds out of range): the call aborts
Panic == [kind |-> "panic", code |-> "index out of range"]

\* ------------------------------------------------------------------------
\* Transactions, outpoints, UTXO entries
\* ------------------------------------------------------------------------

NullOutpoint == <<zeroHash, MaxUint32>>
\* an outpoint is a pair <<transaction hash, output index>>

\* isNullOutpoint
isNullOutpoint(outpoint) == outpoint[2] = MaxUint32 /\ outpoint[1] = zeroHash

\* IsCoinBaseTx: one input, and it references the null outpoint
IsCoinBaseTx(msgTx) ==
  IF Len(msgTx.TxIn) # 1 THEN FALSE
  ELSE IF msgTx.TxIn[1].PreviousOutPoint[2] # MaxUint32
          \/ msgTx.TxIn[1].PreviousOutPoint[1] # zeroHash THEN FALSE
  ELSE TRUE

IsCoinBase(tx) == IsCoinBaseTx(tx)

\* The entries of a view: a map from the outpoints the view holds to an
\* entry that is nil (fetched and not found), unspent, or spent
NilEntry == [state |-> "nil", amount |-> 0, blockHeight |-> 0, isCoinBase |-> FALSE]
Utxo(a, h, cb) == [state |-> "unspent", amount |-> a, blockHeight |-> h, isCoinBase |-> cb]
EmptyEntries == [o \in {} |-> NilEntry]

\* UtxoViewpoint.LookupEntry: nil when the view holds no entry
LookupEntry(entries, outpoint) ==
  IF outpoint \in DOMAIN entries THEN entries[outpoint] ELSE NilEntry

\* UtxoEntry.IsSpent
IsSpent(utxo) == utxo.state = "spent"
IsNil(utxo) == utxo.state = "nil"

\* UtxoEntry.Spend
Spend(utxo) == IF IsSpent(utxo) THEN utxo ELSE [utxo EXCEPT !.state = "spent"]

RECURSIVE SumValues(_)
SumValues(txOut) ==
  IF txOut = <<>> THEN 0 ELSE txOut[1].Value + SumValues(Tail(txOut))

\* UtxoViewpoint.AddTxOuts: every output of tx becomes an unspent entry
OutpointsOf(tx) == {<<tx.hash, k - 1>> : k \in 1..Len(tx.TxOut)}
AddTxOuts(entries, tx, blockHeight) ==
  [o \in DOMAIN entries \cup OutpointsOf(tx) |->
     IF o \in OutpointsOf(tx)
     THEN Utxo(tx.TxOut[o[2] + 1].Value, blockHeight, IsCoinBase(tx))
     ELSE entries[o]]

\* UtxoViewpoint.connectTransaction: spend every referenced entry, add the
\* outputs; a coinbase has no inputs to spend
InputSet(tx) == {tx.TxIn[k].PreviousOutPoint : k \in 1..Len(tx.TxIn)}
connectTransaction(entries, tx, blockHeight) ==
  IF IsCoinBase(tx) THEN AddTxOuts(entries, tx, blockHeight)
  ELSE AddTxOuts([o \in DOMAIN entries |->
                    IF o \in InputSet(tx) THEN Spend(entries[o]) ELSE entries[o]],
                 tx, blockHeight)

\* ------------------------------------------------------------------------
\* Pure functions of validate.go
\* ------------------------------------------------------------------------

\* a shift that shifts nothing
NoShift(x, n) == x
\* x >> n on a non-negative int64
Shr(x, n) == IF n >= 31 THEN 0 ELSE x \div (2 ^ n)

\* fork.GetCurrent: 1 from the hard fork height of the network on
GetCurrent(net, height) ==
  IF net = TestNet3 THEN (IF height >= TestnetStart THEN 1 ELSE 0)
  ELSE (IF height >= ActivationHeight THEN 1 ELSE 0)

\* the float64 decay curve of the hard fork, cut to an integer; scaled
PostForkSubsidy(height, version) == 1

RECURSIVE SumAmounts(_)
SumAmounts(payees) ==
  IF payees = <<>> THEN 0 ELSE payees[1].Amount + SumAmounts(Tail(payees))

\* CalcBlockSubsidy
RECURSIVE CalcBlockSubsidy(_, _, _)
CalcBlockSubsidy(height, net, version) ==
  IF SubsidyReductionInterval = 0 THEN baseSubsidy
  ELSE IF GetCurrent(net, height) = 0
  THEN Shr(baseSubsidy, height \div SubsidyReductionInterval)
  ELSE IF (net = MainNet /\ height = ActivationHeight)
          \/ (net = TestNet3 /\ height = TestnetStart)
  THEN SumAmounts(IF net = TestNet3 THEN TestnetPayees ELSE Payees)
       + CalcBlockSubsidy(height + 1, net, version)
       + TestnetCoreAmount
  ELSE PostForkSubsidy(height, version)

\* CheckTransactionInputs: the fee of tx, or the first rule violation
\* an entry test that forgets spent entries
NotNilEntry(utxo) == ~IsNil(utxo)
\* the referenced output exists and has not been spent
SpendableEntry(utxo) == ~(IsNil(utxo) \/ IsSpent(utxo))
\* a maturity test that is off by one block
ImmatureAtBoundary(utxo, txHeight) ==
  utxo.isCoinBase /\ txHeight - utxo.blockHeight <= CoinbaseMaturity
\* a coinbase output spent before CoinbaseMaturity blocks have passed
ImmatureCoinbase(utxo, txHeight) ==
  utxo.isCoinBase /\ txHeight - utxo.blockHeight < CoinbaseMaturity

\* width of the int64 accumulators, scaled down with the amounts
IntBits == 9
MaxInt64 == 2 ^ (IntBits - 1) - 1
MinInt64 == -(2 ^ (IntBits - 1))
\* a + b in two's complement
AddInt64(a, b) == ((a + b - MinInt64) % (2 ^ IntBits)) + MinInt64

\* a test that lets every transaction spend what it likes
NeverTooMuch(totalSatoshiIn, totalSatoshiOut) == FALSE
\* the transaction spends more than its inputs
SpendsTooMuch(totalSatoshiIn, totalSatoshiOut) == totalSatoshiIn < totalSatoshiOut

RECURSIVE CheckInputsFrom(_, _, _, _, _)
CheckInputsFrom(tx, txHeight, entries, k, totalSatoshiIn) ==
  IF k > Len(tx.TxIn)
  THEN LET totalSatoshiOut == SumValues(tx.TxOut) IN
       IF SpendsTooMuch(totalSatoshiIn, totalSatoshiOut)
       THEN [fee |-> 0, err |-> ruleError("ErrSpendTooHigh")]
       ELSE [fee |-> totalSatoshiIn - totalSatoshiOut, err |-> NoError]
  ELSE LET utxo == LookupEntry(entries, tx.TxIn[k].PreviousOutPoint)
           total == totalSatoshiIn + utxo.amount IN
       IF ~SpendableEntry(utxo)
       THEN [fee |-> 0, err |-> ruleError("ErrMissingTxOut")]
       ELSE IF ImmatureCoinbase(utxo, txHeight)
       THEN [fee |-> 0, err |-> ruleError("ErrImmatureSpend")]
       ELSE IF utxo.amount < 0 \/ utxo.amount > MaxSatoshi
       THEN [fee |-> 0, err |-> ruleError("ErrBadTxOutValue")]
       ELSE IF total < totalSatoshiIn \/ total > MaxSatoshi
       THEN [fee |-> 0, err |-> ruleError("ErrBadTxOutValue")]
       ELSE CheckInputsFrom(tx, txHeight, entries, k + 1, total)

CheckTransactionInputs(tx, txHeight, entries) ==
  IF IsCoinBase(tx) THEN [fee |-> 0, err |-> NoError]
  ELSE CheckInputsFrom(tx, txHeight, entries, 1, 0)

\* isBIP0030Node: the two blocks that violate BIP0030
isBIP0030Node(node) ==
  \/ node.height = Height91842 /\ node.hash = block91842Hash
  \/ node.height = Height91880 /\ node.hash = block91880Hash

\* a gate that closes when pay-to-script-hash enforcement starts
EnforceBeforeP2SH(node, net) ==
  ~isBIP0030Node(node) /\ node.timestamp < Bip16Activation
\* the gate of the BIP0030 check in checkConnectBlock
EnforceBIP0030(node, net) == ~isBIP0030Node(node) /\ node.height < BIP0034Height(net)

\* checkBIP0030: the outpoints the block creates ...
CreatedOutpoints(transactions) ==
  UNION {OutpointsOf(transactions[k]) : k \in 1..Len(transactions)}
\* the orders in which `for outpoint := range fetchSet` may visit the map
Orders(fetchSet) ==
  {order \in [1..Cardinality(fetchSet) -> fetchSet] :
     \A a \in DOMAIN order : \A b \in DOMAIN order : a # b => order[a] # order[b]}
\* a loop that looks at the first outpoint it comes to and no further
FirstOutpointOnly(order) == IF order = <<>> THEN order ELSE <<order[1]>>
\* the loop goes on to the next outpoint until one is refused
Visited(order) == order
\* ... none of which may be an unspent entry of the view: the place in the
\* order of the first outpoint that is one, or 0
RECURSIVE FirstUnspent(_, _, _)
FirstUnspent(entries, order, k) ==
  IF k > Len(order) THEN 0
  ELSE LET utxo == LookupEntry(entries, order[k]) IN
       IF ~IsNil(utxo) /\ ~IsSpent(utxo) THEN k
       ELSE FirstUnspent(entries, order, k + 1)
\* the error of the loop and the outpoint its message names
OverwriteCheck(entries, order) ==
  LET k == FirstUnspent(entries, Visited(order), 1) IN
  IF k = 0 THEN [err |-> NoError, outpoint |-> <<>>]
  ELSE [err |-> ruleError("ErrOverwriteTx"), outpoint |-> order[k]]

\* a lock that counts as active when a bound equals the height or time
ActiveAtBoundary(sequenceLock, blockHeight, medianTimePast) ==
  sequenceLock.Seconds <= medianTimePast /\ sequenceLock.BlockHeight <= blockHeight
\* SequenceLockActive; medianTimePast is medianTimePast.Unix()
SequenceLockActive(sequenceLock, blockHeight, medianTimePast) ==
  IF sequenceLock.Seconds >= medianTimePast \/ sequenceLock.BlockHeight >= blockHeight
  THEN FALSE ELSE TRUE

\* the hard fork coinbase layout check of checkConnectBlock
IsHardForkHeight(height, net) ==
  \/ height = ActivationHeight /\ net = MainNet
  \/ height = TestnetStart /\ net = TestNet3

BadCoinbase == ruleError("ErrBadCoinbaseValue")
Mismatch(a, b, n) == \E j \in 1..n : a[j] # b[j]

RECURSIVE CheckCoreKeys(_, _, _)
CheckCoreKeys(corePubKeys, i, remainder) ==
  IF i > Len(corePubKeys) THEN NoError
  ELSE LET key == corePubKeys[i] IN
       IF Len(remainder) < Len(key) THEN BadCoinbase
       ELSE IF Mismatch(remainder, key, Len(key)) THEN BadCoinbase
       \* remainder[len(key)+1:] must lie inside the slice
       ELSE IF Len(remainder) < Len(key) + 1 THEN Panic
       ELSE CheckCoreKeys(corePubKeys, i + 1,
                          SubSeq(remainder, Len(key) + 2, Len(remainder)))

CheckCoreOutput(net, txo, nPayees) ==
  \* remTx[0] of remTx := txo[len(payees):]
  IF Len(txo) < nPayees + 1 THEN Panic
  ELSE LET rem == txo[nPayees + 1] IN
       IF rem.Value # (IF net = TestNet3 THEN TestnetCoreAmount ELSE CoreAmount)
       THEN BadCoinbase
       \* remTx[0].PkScript[2:]
       ELSE IF Len(rem.PkScript) < 2 THEN Panic
       ELSE CheckCoreKeys(IF net = TestNet3 THEN TestnetCorePubkeyBytes
                          ELSE CorePubkeyBytes,
                          1, SubSeq(rem.PkScript, 3, Len(rem.PkScript)))

\* the capacity of a script slice: a decoded script is cut to its length,
\* so a slice expression cannot reach past it
Cap(script) == Len(script)

RECURSIVE CheckPayees(_, _, _, _)
CheckPayees(net, txo, payees, i) ==
  IF i > Len(payees) THEN CheckCoreOutput(net, txo, Len(payees))
  \* txo[i]
  ELSE IF i > Len(txo) THEN Panic
  ELSE IF txo[i].Value # payees[i].Amount THEN BadCoinbase
  \* txo[i].PkScript[3:23]
  ELSE IF Cap(txo[i].PkScript) < 23 THEN Panic
  ELSE IF Mismatch(SubSeq(txo[i].PkScript, 4, 23), payees[i].Address, 20)
  THEN BadCoinbase
  ELSE CheckPayees(net, txo, payees, i + 1)

HardForkCoinbaseCheck(net, txo) ==
  CheckPayees(net, txo, IF net = TestNet3 THEN TestnetPayees ELSE Payees, 1)

\* ------------------------------------------------------------------------
\* State of one checkConnectBlock call
\* ------------------------------------------------------------------------

VARIABLES
  pc,             \* the check the call has reached
  net,            \* b.params.Net
  node,           \* the node: hash, height, timestamp, version
  block,          \* the block: header PrevBlock and transactions
  view,           \* the UtxoViewpoint: bestHash and entries
  err,            \* the error the call returns
  i,              \* index of the transaction a loop has reached
  enforceBIP0016, enforceSegWit,
  totalSigOpCost, totalFees,
  runScripts, scriptFlags,
  view0,          \* the view as it was on entry
  fetches,        \* backing-store fetches made so far
  bip30Runs,      \* checkBIP0030 calls made so far
  scriptCalls,    \* checkBlockScripts calls made so far
  passed,         \* the checks that have run and found nothing wrong
  lastInputs,     \* the last CheckTransactionInputs call: the transaction's
                  \* index, the entries its inputs found, and the result
  drawn,          \* what the chain answered last: the latest checkpoint and
                  \* the sequence lock of a transaction; and what the loop
                  \* of checkBIP0030 found in two orders of its map
  chain,          \* the chain state CheckConnectBlockTemplate works on: the
                  \* holder of chainLock, the tip and the views created
  workers,        \* the concurrent calls of CheckConnectBlockTemplate
  call,           \* the function under way and its arguments
  loop,           \* the loop variables of the function under way
  ret             \* what the function under way has returned

vars == <<pc, net, node, block, view, err, i, enforceBIP0016, enforceSegWit,
          totalSigOpCost, totalFees, runScripts, scriptFlags, view0, fetches,
          bip30Runs, scriptCalls, passed, lastInputs, drawn, chain, workers,
          call, loop, ret>>

\* ------------------------------------------------------------------------
\* Inputs
\* ------------------------------------------------------------------------

TxOutOf(v, script) == [Value |-> v, PkScript |-> script]
PlainOut(v) == TxOutOf(v, <<>>)
TxInOf(outpoint) == [PreviousOutPoint |-> outpoint]
Coinbase(hash, outs) == [hash |-> hash, TxIn |-> <<TxInOf(NullOutpoint)>>, TxOut |-> outs]
Spender(hash, ins, v) ==
  [hash |-> hash, TxIn |-> [k \in 1..Len(ins) |-> TxInOf(ins[k])], TxOut |-> <<PlainOut(v)>>]

\* transaction hashes: cbOld and txOld are transactions of earlier blocks,
\* cbNew a coinbase never seen before, txA and txB transactions never seen
\* before
OldCoinbaseId == "cbOld"
OldTxId == "txOld"
NewCoinbaseId == "cbNew"
TxAId == "txA"
TxBId == "txB"

\* what the backing store may hold for an outpoint (it holds unspent outputs)
DbChoices(o) ==
  IF o = <<OldCoinbaseId, 0>>
  THEN {NilEntry, Utxo(5, 1, TRUE), Utxo(5, 1, FALSE)}
  ELSE IF o = <<OldCoinbaseId, 1>> THEN {NilEntry, Utxo(2, 1, TRUE)}
  ELSE IF o = <<OldTxId, 0>> THEN {NilEntry, Utxo(3, 0, FALSE)}
  ELSE {NilEntry}

\* views a caller may pass in
View0Choices ==
  { EmptyEntries,
    <<OldCoinbaseId, 0>> :> Spend(Utxo(5, 1, TRUE)),
    <<OldCoinbaseId, 0>> :> Utxo(5, 1, TRUE),
    <<OldTxId, 0>> :> Spend(Utxo(3, 0, FALSE)) }

NodeOf(hash, height, ts, version) ==
  [hash |-> hash, height |-> height, timestamp |-> ts, version |-> version]

\* nodes of the first family: genesis, the two exempt blocks, ordinary blocks
EntryNodeIds ==
  { <<GenesisHash, 0>>, <<GenesisHash, 3>>,
    <<block91842Hash, Height91842>>, <<block91842Hash, 2>>,
    <<block91880Hash, Height91880>>,
    <<OtherHash, 1>>, <<OtherHash, 2>>, <<OtherHash, 3>>,
    <<OtherHash, Height91842>>, <<OtherHash, Height91880>> }

CbValues == {0} \cup 4..MaxCbValue

SpendBlocks ==
  LET CbSet == {Coinbase(NewCoinbaseId, <<PlainOut(v)>>) : v \in CbValues}
      ASet  == {Spender(TxAId, ins, v) :
                  ins \in { << <<OldCoinbaseId, 0>> >>, << <<OldTxId, 0>> >>,
                            << <<OldCoinbaseId, 0>>, <<OldTxId, 0>> >>,
                            << <<NewCoinbaseId, 0>> >> },
                  v \in {3, 6}}
      BSet  == {Spender(TxBId, ins, 1) :
                  ins \in { << <<OldCoinbaseId, 0>> >>, << <<TxAId, 0>> >>,
                            << <<OldTxId, 0>> >> }}
  IN {<<c>> : c \in CbSet}
     \cup {<<c, a>> : c \in CbSet, a \in ASet}
     \cup {<<c, a, b>> : c \in CbSet, a \in ASet, b \in BSet}

\* locking scripts of the hard fork coinbase
\* OP_DUP OP_HASH160 <20 bytes> OP_EQUALVERIFY OP_CHECKSIG
PayeeScript(address) == <<118, 169, 20>> \o address \o <<136, 172>>
RECURSIVE PushKeys(_)
PushKeys(keys) ==
  IF keys = <<>> THEN <<>> ELSE <<Len(keys[1])>> \o keys[1] \o PushKeys(Tail(keys))
\* the first length byte is the second byte of the script
\* OP_2 <keys> OP_2 OP_CHECKMULTISIG
CoreScript(keys) == <<82>> \o PushKeys(keys) \o <<82, 174>>

GoodHardForkOuts(n) ==
  LET payees == IF n = TestNet3 THEN TestnetPayees ELSE Payees
      keys == IF n = TestNet3 THEN TestnetCorePubkeyBytes ELSE CorePubkeyBytes
      core == IF n = TestNet3 THEN TestnetCoreAmount ELSE CoreAmount
  IN [k \in 1..Len(payees) |-> TxOutOf(payees[k].Amount, PayeeScript(payees[k].Address))]
     \o <<TxOutOf(core, CoreScript(keys))>>

\* the required layout, and every layout one change away from it: outputs
\* cut off or added, one amount lowered, one script cut short, one byte changed
HardForkLayouts(n) ==
  LET good == GoodHardForkOuts(n) IN
  {SubSeq(good, 1, k) : k \in 1..Len(good)}
  \cup {good \o <<PlainOut(0)>>}
  \cup {[good EXCEPT ![p].Value = @ - 1] : p \in 1..Len(good)}
  \cup UNION {{[good EXCEPT ![p].PkScript = SubSeq(@, 1, l)] :
                 l \in 0..(Len(good[p].PkScript) - 1)} : p \in 1..Len(good)}
  \cup UNION {{[good EXCEPT ![p].PkScript[j] = 0] :
                 j \in 1..Len(good[p].PkScript)} : p \in 1..Len(good)}

\* a function that has no loop under way and has not returned
NoLoop == [k |-> 0, totalSatoshi |-> 0]
NotReturned == [done |-> FALSE, err |-> NoError, value |-> 0]

\* b.LatestCheckpoint(): none, or a checkpoint at some height
NoCheckpoint == [present |-> FALSE, Height |-> 0]
CheckpointAt(h) == [present |-> TRUE, Height |-> h]
\* no checkpoint asked for and no sequence lock calculated yet
NothingDrawn ==
  [asked |-> FALSE, checkpoint |-> NoCheckpoint,
   tx |-> 0, sequenceLock |-> [Seconds |-> -1, BlockHeight |-> -1],
   walks |-> <<>>]

\* no call of CheckConnectBlockTemplate is under way
Nobody == 0
NoTemplate ==
  /\ chain = [chainLock |-> Nobody, tip |-> 0, views |-> <<>>, writes |-> 0]
  /\ workers = <<>>

Start(n, nd, prev, entries, txs) ==
  /\ pc = "genesis"
  /\ net = n
  /\ node = nd
  /\ block = [PrevBlock |-> prev, txs |-> txs]
  /\ view = [bestHash |-> ParentHash, entries |-> entries]
  /\ view0 = view
  /\ err = NoError
  /\ i = 0
  /\ enforceBIP0016 = FALSE /\ enforceSegWit = FALSE
  /\ totalSigOpCost = 0 /\ totalFees = 0
  /\ runScripts = TRUE /\ scriptFlags = {}
  /\ fetches = 0 /\ bip30Runs = 0 /\ scriptCalls = 0
  /\ passed = {}
  /\ lastInputs = [tx |-> 0, utxos |-> <<>>, fee |-> 0, err |-> NoError]
  /\ drawn = NothingDrawn
  /\ NoTemplate
  /\ call = [fn |-> "checkConnectBlock"]
  /\ loop = NoLoop
  /\ ret = NotReturned

\* calls that exercise the entry checks and the BIP0030 gate
InitEntry ==
  \E n \in Nets, id \in EntryNodeIds,
     ts \in {Bip16Activation - 1, Bip16Activation},
     prev \in {ParentHash, StrayHash}, entries \in View0Choices,
     cb \in {OldCoinbaseId, NewCoinbaseId}, nOut \in 1..2 :
    Start(n, NodeOf(id[1], id[2], ts, 4), prev, entries,
          <<Coinbase(cb, [k \in 1..nOut |-> PlainOut(0)])>>)

\* calls that exercise spending, fees and the coinbase value; the old
\* coinbase is of height 1, so the node is one block short of its maturity
\* or just at it
InitSpend ==
  \E h \in {CoinbaseMaturity, CoinbaseMaturity + 1}, version \in {1, 4}, entries \in View0Choices, txs \in SpendBlocks :
    Start(MainNet, NodeOf(OtherHash, h, Bip16Activation, version), ParentHash,
          entries, txs)

\* calls at the hard fork height of either network
InitHardFork ==
  \E n \in Nets :
    \E outs \in HardForkLayouts(n) :
      Start(n, NodeOf(OtherHash, IF n = TestNet3 THEN TestnetStart ELSE ActivationHeight,
                      Bip16Activation, 4),
            ParentHash, EmptyEntries, <<Coinbase(NewCoinbaseId, outs)>>)

Init == InitEntry \/ InitSpend \/ InitHardFork

\* ------------------------------------------------------------------------
\* checkConnectBlock, step by step
\* ------------------------------------------------------------------------

args == <<net, node, block, view0, chain, workers, call, loop, ret>>
txs == block.txs

\* the call returns e
Return(e) == pc' = "done" /\ err' = e
\* the call goes on with check p
Goto(p) == pc' = p /\ err' = err

\* UtxoViewpoint.fetchUtxos: the outpoints of the set the view lacks are
\* read from the backing store, which answers each with an entry or none
Missing(entries, set) == set \ DOMAIN entries
DbValues(need) == UNION {DbChoices(o) : o \in need}
DbAnswers(need) ==
  {f \in [need -> DbValues(need)] : \A o \in need : f[o] \in DbChoices(o)}
Fetched(entries, answer) ==
  [o \in DOMAIN entries \cup DOMAIN answer |->
     IF o \in DOMAIN answer THEN answer[o] ELSE entries[o]]

\* a genesis test that never answers yes
NoGenesisNode(nd) == FALSE
\* the node is the genesis block
IsGenesisNode(nd) == nd.hash = GenesisHash

CheckGenesis ==
  /\ pc = "genesis"
  /\ IF IsGenesisNode(node) THEN Return(ruleError("ErrMissingTxOut"))
     ELSE Goto("bestHash")
  /\ UNCHANGED <<args, drawn, view, i, enforceBIP0016, enforceSegWit, totalSigOpCost,
                 totalFees, runScripts, scriptFlags, fetches, bip30Runs,
                 scriptCalls, lastInputs, passed>>

\* a view test that accepts every view
AnyViewIsForBlock(v, blk) == TRUE
\* the view is for the node being checked
ViewIsForBlock(v, blk) == v.bestHash = blk.PrevBlock

CheckViewBestHash ==
  /\ pc = "bestHash"
  /\ IF ~ViewIsForBlock(view, block) THEN Return(AssertError) ELSE Goto("bip30")
  /\ UNCHANGED <<args, drawn, view, i, enforceBIP0016, enforceSegWit, totalSigOpCost,
                 totalFees, runScripts, scriptFlags, fetches, bip30Runs,
                 scriptCalls, lastInputs, passed>>

\* checkBIP0030, when the gate asks for it
CheckBIP0030 ==
  /\ pc = "bip30"
  /\ IF EnforceBIP0030(node, net)
     THEN LET fetchSet == CreatedOutpoints(txs)
              need == Missing(view.entries, fetchSet) IN
          /\ bip30Runs' = bip30Runs + 1
          /\ fetches' = IF need = {} THEN fetches ELSE fetches + 1
          /\ \/ /\ need # {}
                /\ Return(CollabError("fetchUtxos"))
                /\ view' = view
                /\ drawn' = drawn
             \* the map is walked in some order; the same walk in
             \* another order, from the same view, is kept beside it
             \/ \E answer \in DbAnswers(need) :
                  \E order \in Orders(fetchSet) : \E again \in Orders(fetchSet) :
                    LET entries == Fetched(view.entries, answer)
                        run == OverwriteCheck(entries, order)
                        rerun == OverwriteCheck(entries, again) IN
                    /\ view' = [view EXCEPT !.entries = entries]
                    /\ drawn' = [drawn EXCEPT !.walks = <<run, rerun>>]
                    /\ IF run.err # NoError
                       THEN Return(run.err)
                       ELSE Goto("fetchInputs")
     ELSE /\ Goto("fetchInputs")
          /\ UNCHANGED <<view, fetches, bip30Runs, drawn>>
  /\ passed' = IF EnforceBIP0030(node, net) /\ pc' = "fetchInputs" THEN passed \cup {"bip30"} ELSE passed
  /\ UNCHANGED <<args, i, enforceBIP0016, enforceSegWit, totalSigOpCost,
                 totalFees, runScripts, scriptFlags, scriptCalls, lastInputs>>

\* UtxoViewpoint.fetchInputUtxos: an input that spends an output of an
\* earlier transaction of the block finds it added to the view; the other
\* inputs the view lacks are read from the backing store
InFlight(j, outpoint) == \E k \in 1..(j - 1) : txs[k].hash = outpoint[1]
IsOrigin(k) ==
  \E j \in 2..Len(txs) : \E o \in InputSet(txs[j]) : k < j /\ txs[k].hash = o[1]
RECURSIVE AddInFlight(_, _)
AddInFlight(entries, k) ==
  IF k > Len(txs) THEN entries
  ELSE AddInFlight(IF IsOrigin(k) THEN AddTxOuts(entries, txs[k], node.height)
                   ELSE entries, k + 1)
NeededInputs ==
  UNION {{o \in InputSet(txs[j]) : ~InFlight(j, o)} : j \in 2..Len(txs)}

FetchInputUtxos ==
  /\ pc = "fetchInputs"
  /\ LET entries == AddInFlight(view.entries, 1)
         need == Missing(entries, NeededInputs) IN
     /\ fetches' = IF need = {} THEN fetches ELSE fetches + 1
     /\ \/ /\ need # {}
           /\ Return(CollabError("fetchInputUtxos"))
           /\ view' = [view EXCEPT !.entries = entries]
        \/ \E answer \in DbAnswers(need) :
             /\ view' = [view EXCEPT !.entries = Fetched(entries, answer)]
             /\ Goto("segwit")
  /\ UNCHANGED <<args, drawn, i, enforceBIP0016, enforceSegWit, totalSigOpCost,
                 totalFees, runScripts, scriptFlags, bip30Runs, scriptCalls,
                 lastInputs, passed>>

\* enforceBIP0016, and the deployment state of segwit for node.parent
DeploymentStates == {"active", "started"}
SegwitState ==
  /\ pc = "segwit"
  /\ enforceBIP0016' = (node.timestamp >= Bip16Activation)
  /\ \/ /\ Return(CollabError("deploymentState"))
        /\ UNCHANGED <<enforceSegWit, i>>
     \/ \E segwitState \in DeploymentStates :
          /\ enforceSegWit' = (segwitState = "active")
          /\ i' = 1
          /\ Goto("sigops")
  /\ UNCHANGED <<args, drawn, view, totalSigOpCost, totalFees, runScripts, scriptFlags,
                 fetches, bip30Runs, scriptCalls, lastInputs, passed>>

\* GetSigOpCost answers with a cost, or for a transaction with inputs with
\* a rule violation of its own
SigOpCosts == {1, MaxBlockSigOpsCost - 1}
\* a sigop count without a limit
NoSigOpLimit(total, last) == FALSE
\* a limit that lets one unit of cost too many through
OneAboveSigOpLimit(total, last) == total < last \/ total > MaxBlockSigOpsCost + 1
ExceedsSigOps(total, last) == total < last \/ total > MaxBlockSigOpsCost

CountSigOps ==
  /\ pc = "sigops"
  /\ \/ /\ i > 1
        /\ Return(ruleError("ErrMissingTxOut"))
        /\ UNCHANGED <<totalSigOpCost, i>>
     \/ \E sigOpCost \in SigOpCosts :
          LET total == totalSigOpCost + sigOpCost IN
          /\ totalSigOpCost' = total
          /\ IF ExceedsSigOps(total, totalSigOpCost)
             THEN Return(ruleError("ErrTooManySigOps")) /\ i' = i
             ELSE IF i < Len(txs) THEN Goto("sigops") /\ i' = i + 1
             ELSE Goto("inputs") /\ i' = 1
  /\ passed' = IF pc' = "inputs" THEN passed \cup {"sigops"} ELSE passed
  /\ UNCHANGED <<args, drawn, view, enforceBIP0016, enforceSegWit, totalFees, runScripts,
                 scriptFlags, fetches, bip30Runs, scriptCalls, lastInputs>>

\* CheckTransactionInputs and connectTransaction of transaction i
FeesOverflow(total, last) == total < last
\* a transaction connected whatever its input check said
ConnectRegardless(entries, tx, height, e, total, last) ==
  connectTransaction(entries, tx, height)
\* the transaction is connected once its inputs and the fee total are in order
ViewAfterInputs(entries, tx, height, e, total, last) ==
  IF e # NoError \/ FeesOverflow(total, last) THEN entries
  ELSE connectTransaction(entries, tx, height)

CheckInputs ==
  /\ pc = "inputs"
  /\ LET tx == txs[i]
         r == CheckTransactionInputs(tx, node.height, view.entries)
         total == AddInt64(totalFees, r.fee) IN
     /\ lastInputs' = [tx |-> i,
                       utxos |-> IF IsCoinBase(tx) THEN <<>>
                                 ELSE [k \in 1..Len(tx.TxIn) |->
                                         LookupEntry(view.entries,
                                                     tx.TxIn[k].PreviousOutPoint)],
                       fee |-> r.fee, err |-> r.err]
     /\ view' = [view EXCEPT !.entries =
                   ViewAfterInputs(@, tx, node.height, r.err, total, totalFees)]
     /\ IF r.err # NoError
        THEN Return(r.err) /\ UNCHANGED <<totalFees, i>>
        ELSE /\ totalFees' = total
             /\ IF FeesOverflow(total, totalFees)
                THEN Return(ruleError("ErrBadFees")) /\ i' = i
                ELSE IF i < Len(txs) THEN Goto("inputs") /\ i' = i + 1
                ELSE Goto("coinbase") /\ i' = i
  /\ passed' = IF pc' = "coinbase" THEN passed \cup {"inputs"} ELSE passed
  /\ UNCHANGED <<args, drawn, enforceBIP0016, enforceSegWit, totalSigOpCost, runScripts,
                 scriptFlags, fetches, bip30Runs, scriptCalls>>

\* a bound that lets one unit too many through
OverpaysByMoreThanOne(totalSatoshiOut, expectedSatoshiOut) ==
  totalSatoshiOut > expectedSatoshiOut + 1
\* the coinbase pays more than subsidy plus fees
CoinbaseOverpays(totalSatoshiOut, expectedSatoshiOut) ==
  totalSatoshiOut > expectedSatoshiOut

CheckCoinbaseValue ==
  /\ pc = "coinbase"
  /\ LET totalSatoshiOut == SumValues(txs[1].TxOut)
         expectedSatoshiOut ==
           CalcBlockSubsidy(node.height, net, node.version) + totalFees IN
     IF CoinbaseOverpays(totalSatoshiOut, expectedSatoshiOut)
     THEN Return(ruleError("ErrBadCoinbaseValue"))
     ELSE Goto("hardfork")
  /\ passed' = IF pc' = "hardfork" THEN passed \cup {"coinbase"} ELSE passed
  /\ UNCHANGED <<args, drawn, view, i, enforceBIP0016, enforceSegWit, totalSigOpCost,
                 totalFees, runScripts, scriptFlags, fetches, bip30Runs,
                 scriptCalls, lastInputs>>

CheckHardForkCoinbase ==
  /\ pc = "hardfork"
  /\ IF IsHardForkHeight(node.height, net)
     THEN LET e == HardForkCoinbaseCheck(net, txs[1].TxOut) IN
          IF e # NoError THEN Return(e) ELSE Goto("flags")
     ELSE Goto("flags")
  /\ passed' = IF IsHardForkHeight(node.height, net) /\ pc' = "flags" THEN passed \cup {"hardfork"} ELSE passed
  /\ UNCHANGED <<args, drawn, view, i, enforceBIP0016, enforceSegWit, totalSigOpCost,
                 totalFees, runScripts, scriptFlags, fetches, bip30Runs,
                 scriptCalls, lastInputs>>

\* the latest checkpoint lies below the node, at it or above it
Checkpoints(h) ==
  {NoCheckpoint, CheckpointAt(h - 1), CheckpointAt(h), CheckpointAt(h + 1)}
\* a test that runs the scripts of the block at the checkpoint's height
SkipBelowCheckpoint(checkpoint, height) ==
  checkpoint.present /\ height < checkpoint.Height
\* scripts are not run at or below the latest checkpoint
SkipScripts(checkpoint, height) == checkpoint.present /\ height <= checkpoint.Height

HeaderFlags(nd, bip16) ==
  (IF bip16 THEN {"ScriptBip16"} ELSE {})
  \cup (IF nd.version >= 3 /\ nd.height >= BIP0066Height
        THEN {"ScriptVerifyDERSignatures"} ELSE {})
  \cup (IF nd.version >= 4 /\ nd.height >= BIP0065Height
        THEN {"ScriptVerifyCheckLockTimeVerify"} ELSE {})

SetScriptFlags ==
  /\ pc = "flags"
  /\ \E checkpoint \in Checkpoints(node.height) :
       /\ runScripts' = ~SkipScripts(checkpoint, node.height)
       /\ drawn' = [drawn EXCEPT !.asked = TRUE, !.checkpoint = checkpoint]
  /\ scriptFlags' = HeaderFlags(node, enforceBIP0016)
  /\ Goto("csv")
  /\ UNCHANGED <<args, view, i, enforceBIP0016, enforceSegWit, totalSigOpCost,
                 totalFees, fetches, bip30Runs, scriptCalls, lastInputs, passed>>

\* the deployment state of CSV for node.parent
CSVState ==
  /\ pc = "csv"
  /\ \/ /\ Return(CollabError("deploymentState"))
        /\ UNCHANGED <<scriptFlags, i>>
     \/ \E csvState \in DeploymentStates :
          IF csvState = "active"
          THEN /\ scriptFlags' = scriptFlags \cup {"ScriptVerifyCheckSequenceVerify"}
               /\ i' = 1
               /\ Goto("seqlock")
          ELSE /\ Goto("scripts")
               /\ UNCHANGED <<scriptFlags, i>>
  /\ UNCHANGED <<args, drawn, view, enforceBIP0016, enforceSegWit, totalSigOpCost,
                 totalFees, runScripts, fetches, bip30Runs, scriptCalls, lastInputs, passed>>

\* calcSequenceLock answers with the lock of transaction i, or fails
SequenceLocks(h) ==
  { [Seconds |-> -1, BlockHeight |-> -1],
    [Seconds |-> ParentMedianTime - 1, BlockHeight |-> h - 1],
    [Seconds |-> ParentMedianTime, BlockHeight |-> -1],
    [Seconds |-> -1, BlockHeight |-> h] }

CheckSequenceLock ==
  /\ pc = "seqlock"
  /\ \/ /\ Return(CollabError("calcSequenceLock"))
        /\ UNCHANGED <<i, drawn>>
     \/ \E sequenceLock \in SequenceLocks(node.height) :
          /\ drawn' = [drawn EXCEPT !.tx = i, !.sequenceLock = sequenceLock]
          /\ IF ~SequenceLockActive(sequenceLock, node.height, ParentMedianTime)
             THEN Return(ruleError("ErrUnfinalizedTx")) /\ i' = i
             ELSE IF i < Len(txs) THEN Goto("seqlock") /\ i' = i + 1
             ELSE Goto("scripts") /\ i' = i
  /\ passed' = IF pc' = "scripts" THEN passed \cup {"seqlock"} ELSE passed
  /\ UNCHANGED <<args, view, enforceBIP0016, enforceSegWit, totalSigOpCost,
                 totalFees, runScripts, scriptFlags, fetches, bip30Runs,
                 scriptCalls, lastInputs>>

\* checkBlockScripts, unless the checkpoint makes it unnecessary
WitnessFlags(segwit) ==
  IF segwit THEN {"ScriptVerifyWitness", "ScriptStrictMultiSig"} ELSE {}

RunScripts ==
  /\ pc = "scripts"
  /\ scriptFlags' = scriptFlags \cup WitnessFlags(enforceSegWit)
  /\ IF runScripts
     THEN /\ scriptCalls' = scriptCalls + 1
          /\ \/ Return(CollabError("checkBlockScripts"))
             \/ Goto("setBest")
     ELSE /\ Goto("setBest")
          /\ scriptCalls' = scriptCalls
  /\ UNCHANGED <<args, drawn, view, i, enforceBIP0016, enforceSegWit, totalSigOpCost,
                 totalFees, runScripts, fetches, bip30Runs, lastInputs, passed>>

\* a best hash that stays at the parent
StaleBestHash(nd) == ParentHash
\* the best hash of the view once the block is connected
NewBestHash(nd) == nd.hash

SetBestHash ==
  /\ pc = "setBest"
  /\ view' = [view EXCEPT !.bestHash = NewBestHash(node)]
  /\ Return(NoError)
  /\ UNCHANGED <<args, drawn, i, enforceBIP0016, enforceSegWit, totalSigOpCost,
                 totalFees, runScripts, scriptFlags, fetches, bip30Runs,
                 scriptCalls, lastInputs, passed>>

Next ==
  \/ CheckGenesis
  \/ CheckViewBestHash
  \/ CheckBIP0030
  \/ FetchInputUtxos
  \/ SegwitState
  \/ CountSigOps
  \/ CheckInputs
  \/ CheckCoinbaseValue
  \/ CheckHardForkCoinbase
  \/ SetScriptFlags
  \/ CSVState
  \/ CheckSequenceLock
  \/ RunScripts
  \/ SetBestHash

Spec == Init /\ [][Next]_vars

\* ------------------------------------------------------------------------
\* Properties of checkConnectBlock
\* ------------------------------------------------------------------------

Returned == pc = "done" /\ err.kind # "panic"
Succeeded == pc = "done" /\ err = NoError
Failed == Returned /\ err # NoError
IsRuleError(e) == e.kind = "RuleError"
\* the call is for the genesis block
GenesisCall == node.hash = GenesisHash

\* C1, as claimed: after success the best hash is node.hash, and after any
\* returned error it equals the parent hash of the block.
C1_BestHashIsParentOnError ==
  /\ Succeeded => view.bestHash = node.hash
  /\ Failed => view.bestHash = block.PrevBlock

\* C1, amended: the best hash is node.hash exactly after success; until
\* then, and after any error, it is the best hash the view had on entry,
\* which is the parent hash of the block unless the call failed with the
\* AssertError or rejected the genesis node.
C1_BestHashOnSuccessOnly ==
  /\ Succeeded => view.bestHash = node.hash
  /\ ~Succeeded => view.bestHash = view0.bestHash
  /\ Failed /\ err # AssertError /\ ~GenesisCall
       => view.bestHash = block.PrevBlock

C1_Witness ==
  Succeeded /\ view.bestHash = node.hash /\ view0.bestHash # node.hash

\* the transactions connected so far
Connected ==
  IF lastInputs.tx = 0 THEN 0
  ELSE IF lastInputs.err # NoError \/ (pc = "done" /\ err = ruleError("ErrBadFees"))
  THEN lastInputs.tx - 1
  ELSE lastInputs.tx
NewlySpent ==
  {o \in DOMAIN view.entries :
     IsSpent(view.entries[o]) /\ ~IsSpent(LookupEntry(view0.entries, o))}
BlockOutputAt(o) ==
  LET k == CHOOSE k \in 1..Len(txs) : txs[k].hash = o[1] IN
  Utxo(txs[k].TxOut[o[2] + 1].Value, node.height, IsCoinBase(txs[k]))
\* outputs of the block that the view holds now and did not hold on entry
AddedOutputs ==
  {o \in CreatedOutpoints(txs) \cap DOMAIN view.entries :
     /\ view.entries[o] # LookupEntry(view0.entries, o)
     /\ view.entries[o] \in {BlockOutputAt(o), Spend(BlockOutputAt(o))}}

\* C2, as claimed: after a rule violation every entry has the spent or
\* unspent status it had before the call and no output of the block has
\* been added.
C2_NoMutationSurvives ==
  Failed /\ IsRuleError(err) => NewlySpent = {} /\ AddedOutputs = {}

\* C2, amended: after a rule violation the best hash is unchanged, and what
\* the transactions connected before the violation did to the view is still
\* there: only entries referenced by inputs of those transactions have
\* gone from unspent to spent, and a violation found before the first
\* transaction is connected leaves no entry newly spent; rejecting the
\* genesis node leaves the view untouched.
C2_OnlyConnectedMutations ==
  Failed /\ IsRuleError(err) =>
    /\ view.bestHash = view0.bestHash
    /\ \A o \in NewlySpent : \E k \in 1..Connected : o \in InputSet(txs[k])
    /\ Connected = 0 => NewlySpent = {}
    /\ GenesisCall => view = view0

\* a coinbase value violation found after an input was spent
C2_Witness ==
  /\ Failed /\ err = ruleError("ErrBadCoinbaseValue")
  /\ NewlySpent # {} /\ AddedOutputs # {}

\* C3: a view whose best hash is not the block's PrevBlock makes the call,
\* for a node that is not genesis, return an AssertError, which is no
\* RuleError, before any fetch from the backing store, before checkBIP0030
\* and before any change of the view.
ViewMismatch == ~GenesisCall /\ view0.bestHash # block.PrevBlock
C3_AssertBeforeAnything ==
  ViewMismatch =>
    /\ pc \in {"genesis", "bestHash", "done"}
    /\ pc = "done" => err = AssertError /\ ~IsRuleError(err)
    /\ fetches = 0 /\ bip30Runs = 0 /\ passed = {} /\ view = view0

C3_Witness == Returned /\ ViewMismatch /\ err = AssertError

\* C4: for a node whose hash is the genesis hash the call returns the rule
\* error MissingTxOut, before the best hash of the view is compared and
\* before anything else, and leaves the view unchanged.
C4_GenesisFirst ==
  GenesisCall =>
    /\ pc \in {"genesis", "done"}
    /\ pc = "done" => err = ruleError("ErrMissingTxOut")
    /\ fetches = 0 /\ bip30Runs = 0 /\ scriptCalls = 0 /\ passed = {}
    /\ view = view0

\* the genesis node with a view that is not for the block
C4_Witness ==
  /\ Returned /\ GenesisCall /\ view0.bestHash # block.PrevBlock
  /\ err = ruleError("ErrMissingTxOut")

\* the cheaper checks of the call have all run and passed
Grandfathered ==
  \/ node.height = Height91842 /\ node.hash = block91842Hash
  \/ node.height = Height91880 /\ node.hash = block91880Hash
BIP0030Gate == ~Grandfathered /\ node.height < BIP0034Height(net)
AtHardFork ==
  \/ net = MainNet /\ node.height = ActivationHeight
  \/ net = TestNet3 /\ node.height = TestnetStart
CSVActive == "ScriptVerifyCheckSequenceVerify" \in scriptFlags
CheaperChecksPassed ==
  /\ BIP0030Gate => "bip30" \in passed
  /\ "sigops" \in passed /\ totalSigOpCost <= MaxBlockSigOpsCost
  /\ "inputs" \in passed
  /\ lastInputs.tx = Len(txs) /\ lastInputs.err = NoError
  /\ "coinbase" \in passed
  /\ SumValues(txs[1].TxOut)
       <= CalcBlockSubsidy(node.height, net, node.version) + totalFees
  /\ AtHardFork => "hardfork" \in passed
                   /\ HardForkCoinbaseCheck(net, txs[1].TxOut) = NoError
  /\ CSVActive => "seqlock" \in passed

\* C5: checkBlockScripts is called at most once in a call, and only after
\* BIP0030, the sigop cost, the transaction inputs, the coinbase value, the
\* hard fork coinbase layout and the sequence locks have passed; a call in
\* which one of these checks fails never runs the scripts.
C5_ScriptsLast ==
  /\ scriptCalls <= 1
  /\ scriptCalls = 1 => CheaperChecksPassed /\ pc \in {"setBest", "done"}
  /\ pc = "done" /\ err # NoError /\ err # CollabError("checkBlockScripts")
       => scriptCalls = 0

\* scripts run for a block of three transactions under sequence locks
C5_Witness ==
  /\ Succeeded /\ scriptCalls = 1 /\ Len(txs) = 3
  /\ CSVActive /\ "seqlock" \in passed

\* the entries the inputs of the last checked transaction found, in order
FoundBy(k) == lastInputs.utxos[k]
Unusable(utxo) == IsNil(utxo) \/ IsSpent(utxo)
\* input k is reached: the inputs before it found usable, mature entries
Reaches(k) ==
  \A j \in 1..(k - 1) :
     ~Unusable(FoundBy(j)) /\ ~ImmatureCoinbase(FoundBy(j), node.height)
SharedInputs ==
  \E j \in 2..Len(txs) : \E k \in 2..Len(txs) :
     j < k /\ InputSet(txs[j]) \cap InputSet(txs[k]) # {}
\* the last checked transaction spends what transaction j of the block spent
SpentEarlierBy(j, k) ==
  /\ j < lastInputs.tx
  /\ txs[lastInputs.tx].TxIn[k].PreviousOutPoint \in InputSet(txs[j])

\* C6: an accepted block spends no output twice. An input that references
\* an outpoint spent by an earlier transaction of the block finds the entry
\* spent, an input that references an outpoint the view lacks finds nothing,
\* and in both cases the input check reports MissingTxOut and the call
\* returns it.
C6_NoDoubleSpend ==
  /\ Succeeded => ~SharedInputs
  /\ \A k \in 1..Len(lastInputs.utxos) :
       /\ (\E j \in 2..Len(txs) : SpentEarlierBy(j, k)) => Unusable(FoundBy(k))
       /\ Unusable(FoundBy(k)) /\ Reaches(k) =>
            /\ lastInputs.err = ruleError("ErrMissingTxOut")
            /\ pc = "done" /\ err = ruleError("ErrMissingTxOut")
  /\ Succeeded => \A j \in 2..Len(txs) : \A o \in InputSet(txs[j]) :
                    o \in DOMAIN view.entries /\ IsSpent(view.entries[o])

\* the third transaction spends again what the second has spent
C6_Witness ==
  /\ pc = "done" /\ err = ruleError("ErrMissingTxOut")
  /\ lastInputs.tx = 3 /\ SpentEarlierBy(2, 1) /\ IsSpent(FoundBy(1))

\* input k of the last checked transaction spends a coinbase output that
\* is not yet CoinbaseMaturity blocks old
TooYoung(utxo) ==
  utxo.state = "unspent" /\ utxo.isCoinBase
  /\ node.height - utxo.blockHeight < CoinbaseMaturity
ReachesMaturityCheck(k) ==
  \A j \in 1..(k - 1) : FoundBy(j).state = "unspent" /\ ~TooYoung(FoundBy(j))

\* C7: CheckTransactionInputs fails with ImmatureSpend when an input
\* spends an unspent coinbase entry less than CoinbaseMaturity blocks below
\* the transaction, and for no other reason: not at CoinbaseMaturity blocks
\* or more, and never for an entry that is not a coinbase output.
C7_MaturityBoundary ==
  /\ \A k \in 1..Len(lastInputs.utxos) :
       TooYoung(FoundBy(k)) /\ ReachesMaturityCheck(k)
         => lastInputs.err = ruleError("ErrImmatureSpend")
  /\ lastInputs.err = ruleError("ErrImmatureSpend")
       => \E k \in 1..Len(lastInputs.utxos) : TooYoung(FoundBy(k))
  /\ pc = "done" /\ err = ruleError("ErrImmatureSpend")
       => lastInputs.err = err

\* a coinbase output spent one block before it matures
C7_Witness ==
  /\ pc = "done" /\ err = ruleError("ErrImmatureSpend")
  /\ \E k \in 1..Len(lastInputs.utxos) :
       /\ TooYoung(FoundBy(k))
       /\ node.height = FoundBy(k).blockHeight + CoinbaseMaturity - 1

\* pay-to-script-hash enforcement has started for the node
P2SHActive == node.timestamp >= Bip16Activation
\* an output the block creates that the view holds unspent
DuplicatesUnspent(entries) ==
  \E o \in CreatedOutpoints(txs) \cap DOMAIN entries : entries[o].state = "unspent"
Rejected(code) == pc = "done" /\ err = ruleError(code)
\* the call has got as far as the BIP0030 step and is past it
PastBIP0030 == ~GenesisCall /\ ~ViewMismatch /\ pc \notin {"genesis", "bestHash", "bip30"}

\* C8, as claimed: the block is rejected with OverwriteTx only for a node
\* that is not grandfathered and for which pay-to-script-hash enforcement
\* has not started, and a block that duplicates an unspent output the view
\* holds is rejected for such a node.
C8_GatedByP2SH ==
  /\ Rejected("ErrOverwriteTx") => ~Grandfathered /\ ~P2SHActive
  /\ PastBIP0030 /\ ~Grandfathered /\ ~P2SHActive /\ DuplicatesUnspent(view0.entries)
       => pc = "done" /\ err \in {ruleError("ErrOverwriteTx"), CollabError("fetchUtxos")}

\* C8, amended: the gate is the height of the node. The block is rejected
\* with OverwriteTx only for a node that is not grandfathered and lies below
\* the BIP0034 height of the network, and only when an output it creates is
\* unspent in the view once the backing store has been read; for such a
\* node a duplicate of an unspent output is rejected whether or not
\* pay-to-script-hash enforcement has started. With the gate shut
\* checkBIP0030 is not called. An entry that is spent never causes the
\* rejection.
C8_GatedByBIP0034Height ==
  /\ Rejected("ErrOverwriteTx") => BIP0030Gate /\ DuplicatesUnspent(view.entries)
  /\ ~BIP0030Gate => bip30Runs = 0 /\ err # ruleError("ErrOverwriteTx")
  /\ PastBIP0030 /\ BIP0030Gate =>
       /\ bip30Runs = 1
       /\ DuplicatesUnspent(view0.entries) =>
            pc = "done" /\ err \in {ruleError("ErrOverwriteTx"), CollabError("fetchUtxos")}
       /\ pc = "fetchInputs" => ~DuplicatesUnspent(view.entries)

\* a duplicate rejected although pay-to-script-hash enforcement has started
C8_Witness ==
  /\ Rejected("ErrOverwriteTx") /\ P2SHActive
  /\ DuplicatesUnspent(view.entries)

\* the fee of transaction j, from the entries its inputs have spent
RECURSIVE SpentAmount(_, _)
SpentAmount(txIn, k) ==
  IF k > Len(txIn) THEN 0
  ELSE LookupEntry(view.entries, txIn[k].PreviousOutPoint).amount
       + SpentAmount(txIn, k + 1)
RECURSIVE FeesFrom(_)
FeesFrom(j) ==
  IF j > Len(txs) THEN 0
  ELSE SpentAmount(txs[j].TxIn, 1) - SumValues(txs[j].TxOut) + FeesFrom(j + 1)
CoinbaseSum == SumValues(txs[1].TxOut)
Subsidy == CalcBlockSubsidy(node.height, net, node.version)
\* the coinbase value check has been made
PastCoinbaseValue == "inputs" \in passed /\ pc # "coinbase"

\* C9: an accepted block has a coinbase whose outputs sum to at most the
\* subsidy of the height plus the fees of all transactions of the block; a
\* larger sum is rejected with BadCoinbaseValue and a smaller or equal one
\* passes the value test.
C9_CoinbaseBound ==
  /\ Succeeded => CoinbaseSum <= Subsidy + FeesFrom(2)
  /\ "inputs" \in passed => totalFees = FeesFrom(2)
  /\ PastCoinbaseValue /\ CoinbaseSum > Subsidy + FeesFrom(2)
       => Rejected("ErrBadCoinbaseValue")
  /\ PastCoinbaseValue /\ CoinbaseSum <= Subsidy + FeesFrom(2)
       => "coinbase" \in passed

\* an accepted coinbase that claims part of the fees and leaves the rest
C9_Witness ==
  /\ Succeeded /\ FeesFrom(2) > 1
  /\ CoinbaseSum > Subsidy /\ CoinbaseSum < Subsidy + FeesFrom(2)

\* the layout the hard fork coinbase must have
RequiredPayees == IF net = TestNet3 THEN TestnetPayees ELSE Payees
TooFewOutputs == Len(txs[1].TxOut) < Len(RequiredPayees) + 1
ShortPayeeScript ==
  \E k \in 1..Len(RequiredPayees) :
     k <= Len(txs[1].TxOut) /\ Len(txs[1].TxOut[k].PkScript) < 23
\* the layout check has been made and has not passed
LayoutRefused ==
  /\ AtHardFork /\ pc = "done"
  /\ "coinbase" \in passed /\ "hardfork" \notin passed

\* C10, as claimed: at the hard fork height a coinbase that the layout
\* check does not accept is answered with BadCoinbaseValue, a coinbase with
\* too few outputs or too short a payee script included; the call does not
\* abort.
C10_DeviationIsRuleError ==
  /\ LayoutRefused => err = ruleError("ErrBadCoinbaseValue")
  /\ AtHardFork /\ "coinbase" \in passed /\ (TooFewOutputs \/ ShortPayeeScript)
       => pc = "hardfork" \/ Rejected("ErrBadCoinbaseValue")

\* what all transactions of the block pay out, and what the inputs of
\* transactions j and later have spent
RECURSIVE PaidOutFrom(_)
PaidOutFrom(j) ==
  IF j > Len(txs) THEN 0 ELSE SumValues(txs[j].TxOut) + PaidOutFrom(j + 1)
RECURSIVE SpentFrom(_)
SpentFrom(j) ==
  IF j > Len(txs) THEN 0 ELSE SpentAmount(txs[j].TxIn, 1) + SpentFrom(j + 1)
\* what the entries the last checked transaction found are worth
RECURSIVE FoundAmount(_)
FoundAmount(k) == IF k = 0 THEN 0 ELSE FoundBy(k).amount + FoundAmount(k - 1)
LastChecked == txs[lastInputs.tx]
\* the last checked transaction is no coinbase and all its inputs found
\* usable, mature entries
InputsUsable ==
  /\ lastInputs.tx > 1
  /\ \A k \in 1..Len(lastInputs.utxos) :
       ~Unusable(FoundBy(k)) /\ ~ImmatureCoinbase(FoundBy(k), node.height)
\* the fees of the transactions checked so far, as integers without width
RECURSIVE FeesUpTo(_)
FeesUpTo(j) ==
  IF j < 2 THEN 0
  ELSE SpentAmount(txs[j].TxIn, 1) - SumValues(txs[j].TxOut) + FeesUpTo(j - 1)

\* C27: the transactions of an accepted block pay out, coinbase included,
\* at most the subsidy of the height plus what the entries spent by their
\* inputs are worth. A transaction that passes CheckTransactionInputs has
\* the fee inputs minus outputs, between 0 and MaxSatoshi, and one whose
\* usable inputs are worth less than its outputs fails with SpendTooHigh.
\* The fee total is the sum of the fees as integers, never a wrapped value,
\* and BadFees is returned exactly when adding a fee takes the total above
\* the int64 range.
C27_NoValueCreated ==
  /\ Succeeded => PaidOutFrom(1) <= Subsidy + SpentFrom(2)
  /\ (lastInputs.tx > 1 /\ lastInputs.err = NoError) =>
       /\ lastInputs.fee \in 0..MaxSatoshi
       /\ lastInputs.fee
            = FoundAmount(Len(lastInputs.utxos)) - SumValues(LastChecked.TxOut)
  /\ InputsUsable =>
       (lastInputs.err = ruleError("ErrSpendTooHigh")
          <=> FoundAmount(Len(lastInputs.utxos)) < SumValues(LastChecked.TxOut))
  /\ (lastInputs.tx > 0 /\ lastInputs.err = NoError /\ ~Rejected("ErrBadFees")) =>
       totalFees = FeesUpTo(lastInputs.tx)
  /\ Rejected("ErrBadFees") => FeesUpTo(lastInputs.tx) > MaxInt64
  /\ (call.fn = "totalFees += txFee" /\ ret.done) =>
       /\ ret.err = ruleError("ErrBadFees") <=> call.totalFees + call.txFee > MaxInt64
       /\ ret.err = NoError => ret.value = call.totalFees + call.txFee

\* an accepted block whose second transaction spends an output of the
\* first, both paying fees, with a coinbase that claims more than the subsidy
C27_Witness ==
  /\ Succeeded /\ Len(txs) = 3
  /\ <<txs[2].hash, 0>> \in InputSet(txs[3])
  /\ SpentAmount(txs[2].TxIn, 1) > SumValues(txs[2].TxOut)
  /\ CoinbaseSum > Subsidy
  /\ PaidOutFrom(1) <= Subsidy + SpentFrom(2)

\* no input of the block has been checked and no entry marked spent
NoInputTouched == lastInputs.tx = 0 /\ NewlySpent = {}

\* C29: while the signature operation cost is counted the running total is
\* within MaxBlockSigOpsCost after every transaction counted, and no input
\* has been checked or spent; the inputs are checked only after the count
\* of all transactions has passed. A block rejected with TooManySigOps has a
\* total above the maximum and leaves no view entry newly spent, and an
\* accepted block has a total of at most MaxBlockSigOpsCost.
C29_SigOpsBeforeInputs ==
  /\ pc = "sigops" => totalSigOpCost <= MaxBlockSigOpsCost /\ NoInputTouched
  /\ lastInputs.tx > 0 => "sigops" \in passed /\ totalSigOpCost <= MaxBlockSigOpsCost
  /\ Rejected("ErrTooManySigOps") =>
       totalSigOpCost > MaxBlockSigOpsCost /\ NoInputTouched
  /\ Succeeded => totalSigOpCost <= MaxBlockSigOpsCost

\* a block with a spending transaction is turned away for its signature
\* operations at the last transaction, its inputs in the view and unspent
C29_Witness ==
  /\ Rejected("ErrTooManySigOps") /\ Len(txs) = 3 /\ i = 3
  /\ \A o \in InputSet(txs[2]) : ~Unusable(LookupEntry(view.entries, o))
  /\ NoInputTouched

\* checkBIP0030 has walked its map
Walked == drawn.walks # <<>>
\* and the view is still as the walk left it
JustWalked == Walked /\ (pc = "fetchInputs" \/ Rejected("ErrOverwriteTx"))
\* the outpoints the block creates that the view holds unspent
UnspentDuplicates ==
  {o \in CreatedOutpoints(txs) \cap DOMAIN view.entries :
     view.entries[o].state = "unspent"}

\* C25: two walks of the outpoint map of checkBIP0030 from the same view,
\* each in an order of its own, end with the same outcome, success or
\* OverwriteTx, whichever outpoint each comes to first; the outcome is that
\* of the call, the view the walks leave is the view the fetch left, and a
\* rejection means that the view holds an unspent duplicate. Every other
\* step of checkConnectBlock goes over slices in their order.
C25_SameOutcomeInAnyOrder ==
  /\ Walked =>
       /\ drawn.walks[1].err = drawn.walks[2].err
       /\ drawn.walks[1].err # NoError => pc = "done" /\ err = drawn.walks[1].err
  /\ JustWalked =>
       /\ drawn.walks[1].err = ruleError("ErrOverwriteTx") <=> UnspentDuplicates # {}
       /\ \A k \in 1..2 :
            drawn.walks[k].err # NoError => drawn.walks[k].outpoint \in UnspentDuplicates

\* two walks refused the block for different outpoints
C25_Witness ==
  /\ Walked /\ Rejected("ErrOverwriteTx")
  /\ drawn.walks[1].outpoint # drawn.walks[2].outpoint

\* the sequence lock calculated last, measured as the claim measures it
LockCalculated == drawn.tx > 0
LockIsActive ==
  /\ drawn.sequenceLock.Seconds < ParentMedianTime
  /\ drawn.sequenceLock.BlockHeight < node.height

\* C21: a sequence lock is active exactly when its seconds are below the
\* parent's median time and its height below the node's, both strictly.
\* With CSV active for node.parent, checkConnectBlock fails with
\* UnfinalizedTx as soon as the lock of a transaction is not active, so a
\* block it accepts had the locks of all its transactions calculated and
\* active; with CSV not active no lock is calculated and no block fails
\* with UnfinalizedTx.
C21_SequenceLocksEnforced ==
  /\ LockCalculated => CSVActive /\ (err = ruleError("ErrUnfinalizedTx") <=> ~LockIsActive)
  /\ err = ruleError("ErrUnfinalizedTx") => CSVActive /\ LockCalculated
  /\ pc = "seqlock" => drawn.tx = i - 1
  /\ Succeeded /\ CSVActive => drawn.tx = Len(txs) /\ LockIsActive
  /\ ~CSVActive => ~LockCalculated

\* the lock of the second transaction equals the node's height: refused
C21_Witness ==
  /\ Failed /\ err = ruleError("ErrUnfinalizedTx") /\ CSVActive
  /\ drawn.tx = 2 /\ drawn.sequenceLock.BlockHeight = node.height
  /\ drawn.sequenceLock.Seconds < ParentMedianTime

\* the latest checkpoint exists and the node is at or below it
AtOrBelowCheckpoint ==
  drawn.checkpoint.present /\ node.height <= drawn.checkpoint.Height
\* the stage of checkBlockScripts is behind
PastScripts == pc = "setBest" \/ Succeeded \/ err = CollabError("checkBlockScripts")

\* C22: checkBlockScripts is called, once, exactly when no latest
\* checkpoint exists or the node is above it; at the checkpoint's height it
\* is not called. A block accepted without its scripts run has passed the
\* signature-operation, input, coinbase-value, hard-fork and sequence-lock
\* checks, and the best hash of the view is the node's.
C22_OnlyScriptsSkipped ==
  /\ drawn.asked => (runScripts <=> ~AtOrBelowCheckpoint)
  /\ scriptCalls > 0 => drawn.asked /\ ~AtOrBelowCheckpoint /\ scriptCalls = 1
  /\ PastScripts => (scriptCalls = 0 <=> AtOrBelowCheckpoint)
  /\ Succeeded /\ AtOrBelowCheckpoint =>
       /\ CheaperChecksPassed
       /\ CSVActive => "seqlock" \in passed /\ drawn.tx = Len(txs)
       /\ view.bestHash = node.hash

\* a block at the checkpoint's height is accepted without its scripts run
C22_Witness ==
  /\ Succeeded /\ drawn.checkpoint = CheckpointAt(node.height)
  /\ scriptCalls = 0 /\ CSVActive /\ Len(txs) >= 2
  /\ view.bestHash = node.hash

\* ------------------------------------------------------------------------
\* The functions of validate.go outside checkConnectBlock, one call each
\* ------------------------------------------------------------------------

\* the variables of checkConnectBlock, which these calls leave alone
templateVars == <<chain, workers>>
connectVars == <<pc, net, node, block, view, err, i, enforceBIP0016,
                 enforceSegWit, totalSigOpCost, totalFees, runScripts,
                 scriptFlags, view0, fetches, bip30Runs, scriptCalls, passed,
                 lastInputs, drawn>>
NoConnect ==
  /\ pc = "idle"
  /\ net = MainNet
  /\ node = NodeOf(OtherHash, 0, 0, 0)
  /\ block = [PrevBlock |-> ParentHash, txs |-> <<>>]
  /\ view = [bestHash |-> ParentHash, entries |-> EmptyEntries]
  /\ view0 = view
  /\ err = NoError
  /\ i = 0
  /\ enforceBIP0016 = FALSE /\ enforceSegWit = FALSE
  /\ totalSigOpCost = 0 /\ totalFees = 0
  /\ runScripts = TRUE /\ scriptFlags = {}
  /\ fetches = 0 /\ bip30Runs = 0 /\ scriptCalls = 0
  /\ passed = {}
  /\ lastInputs = [tx |-> 0, utxos |-> <<>>, fee |-> 0, err |-> NoError]
  /\ drawn = NothingDrawn

\* the function returns value v, or error e
Returns(v) == ret' = [done |-> TRUE, err |-> NoError, value |-> v]
Fails(e) == ret' = [done |-> TRUE, err |-> e, value |-> 0]
Calling(fn) == call.fn = fn /\ ~ret.done

\* heights CalcBlockSubsidy is asked about: the first halvings and the
\* heights around the hard fork of either network
MaxSubsidyHeight == 12
SubsidyHeights ==
  0..MaxSubsidyHeight
  \cup {TestnetStart - 1, TestnetStart, TestnetStart + 1,
        ActivationHeight - 1, ActivationHeight, ActivationHeight + 1}

InitCalcBlockSubsidy ==
  \E n \in Nets, h \in SubsidyHeights, v \in {1, 4} :
    /\ call = [fn |-> "CalcBlockSubsidy", net |-> n, height |-> h, version |-> v]
    /\ loop = NoLoop /\ ret = NotReturned

CallCalcBlockSubsidy ==
  /\ Calling("CalcBlockSubsidy")
  /\ Returns(CalcBlockSubsidy(call.height, call.net, call.version))
  /\ UNCHANGED <<call, loop, connectVars, templateVars>>

\* MinCoinbaseScriptLen, MaxCoinbaseScriptLen
MinCoinbaseScriptLen == 2
MaxCoinbaseScriptLen == 100
\* blockweight MaxBlockBaseSize, scaled down
MaxBlockBaseSize == 10

\* CheckTransactionSanity, check by check
\* the checks before the outputs are looked at
SanityOfShape(msgTx) ==
  IF Len(msgTx.TxIn) = 0 THEN ruleError("ErrNoTxInputs")
  ELSE IF Len(msgTx.TxOut) = 0 THEN ruleError("ErrNoTxOutputs")
  ELSE IF msgTx.size > MaxBlockBaseSize THEN ruleError("ErrTxTooBig")
  ELSE NoError
\* a range test that lets every positive value through
NeverTooHigh(satoshi) == FALSE
\* the tests of one output value and of the running total
ValueTooHigh(satoshi) == satoshi > MaxSatoshi
ValueOutOfRange(satoshi) == satoshi < 0 \/ ValueTooHigh(satoshi)
TotalOutOfRange(totalSatoshi) == totalSatoshi < 0 \/ totalSatoshi > MaxSatoshi
\* the checks after the outputs
HasDuplicateInputs(msgTx) ==
  \E j \in 1..Len(msgTx.TxIn) : \E k \in 1..Len(msgTx.TxIn) :
     j < k /\ msgTx.TxIn[j].PreviousOutPoint = msgTx.TxIn[k].PreviousOutPoint
\* a script length test that has no upper limit
ScriptLenBelowMin(scriptLength) == scriptLength < MinCoinbaseScriptLen
\* the coinbase script is shorter or longer than allowed
BadScriptLen(scriptLength) ==
  scriptLength < MinCoinbaseScriptLen \/ scriptLength > MaxCoinbaseScriptLen
SanityOfInputs(msgTx) ==
  IF HasDuplicateInputs(msgTx) THEN ruleError("ErrDuplicateTxInputs")
  ELSE IF IsCoinBaseTx(msgTx)
  THEN (IF BadScriptLen(Len(msgTx.TxIn[1].SignatureScript))
        THEN ruleError("ErrBadCoinbaseScriptLen") ELSE NoError)
  ELSE IF \E k \in 1..Len(msgTx.TxIn) : isNullOutpoint(msgTx.TxIn[k].PreviousOutPoint)
  THEN ruleError("ErrBadTxInput")
  ELSE NoError

SanityStart ==
  /\ Calling("CheckTransactionSanity") /\ loop.k = 0
  /\ IF SanityOfShape(call.tx) # NoError
     THEN Fails(SanityOfShape(call.tx)) /\ loop' = loop
     ELSE loop' = [k |-> 1, totalSatoshi |-> 0] /\ ret' = ret
  /\ UNCHANGED <<call, connectVars, templateVars>>

\* one round of the loop over the outputs; k - 1 values have been added
SanityOutput ==
  /\ Calling("CheckTransactionSanity") /\ loop.k \in 1..Len(call.tx.TxOut)
  /\ LET satoshi == call.tx.TxOut[loop.k].Value
         totalSatoshi == AddInt64(loop.totalSatoshi, satoshi) IN
     IF ValueOutOfRange(satoshi)
     THEN Fails(ruleError("ErrBadTxOutValue")) /\ loop' = loop
     ELSE /\ loop' = [k |-> loop.k + 1, totalSatoshi |-> totalSatoshi]
          /\ IF TotalOutOfRange(totalSatoshi)
             THEN Fails(ruleError("ErrBadTxOutValue")) ELSE ret' = ret
  /\ UNCHANGED <<call, connectVars, templateVars>>

SanityInputs ==
  /\ Calling("CheckTransactionSanity") /\ loop.k = Len(call.tx.TxOut) + 1
  /\ IF SanityOfInputs(call.tx) # NoError
     THEN Fails(SanityOfInputs(call.tx)) ELSE Returns(0)
  /\ UNCHANGED <<call, loop, connectVars, templateVars>>

\* transactions CheckTransactionSanity is given
ScriptOfLen(n) == [j \in 1..n |-> 0]
SanityIn(outpoint, scriptLength) ==
  [PreviousOutPoint |-> outpoint, SignatureScript |-> ScriptOfLen(scriptLength)]
SanityTx(ins, values, size) ==
  [TxIn |-> ins, TxOut |-> [k \in 1..Len(values) |-> PlainOut(values[k])],
   size |-> size]
OutputValues == {-1, 0, 1, MaxSatoshi - 1, MaxSatoshi, MaxSatoshi + 1, MaxInt64}
MaxOutputs == 3
ValueLists == UNION {[1..n -> OutputValues] : n \in 0..MaxOutputs}
ScriptLengths ==
  {MinCoinbaseScriptLen - 1, MinCoinbaseScriptLen,
   MaxCoinbaseScriptLen, MaxCoinbaseScriptLen + 1}
InputLists ==
  {<<>>}
  \cup {<<SanityIn(NullOutpoint, n)>> : n \in ScriptLengths}
  \cup {<<SanityIn(<<zeroHash, 0>>, 0)>>, <<SanityIn(<<OldTxId, MaxUint32>>, 0)>>,
        <<SanityIn(<<OldTxId, 0>>, 0)>>,
        <<SanityIn(<<OldTxId, 0>>, 0), SanityIn(<<OldTxId, 1>>, 0)>>,
        <<SanityIn(<<OldTxId, 0>>, 0), SanityIn(<<OldTxId, 0>>, 1)>>,
        <<SanityIn(<<OldTxId, 0>>, 0), SanityIn(NullOutpoint, 2)>>,
        <<SanityIn(NullOutpoint, 2), SanityIn(NullOutpoint, 2)>>}
SanityTxs ==
  {SanityTx(<<SanityIn(<<OldTxId, 0>>, 0)>>, values, 1) : values \in ValueLists}
  \cup {SanityTx(ins, values, size) :
          ins \in InputLists,
          values \in {<<>>, <<1>>, <<MaxSatoshi, 1>>, <<1, -1>>},
          size \in {MaxBlockBaseSize, MaxBlockBaseSize + 1}}

InitCheckTransactionSanity ==
  \E tx \in SanityTxs :
    /\ call = [fn |-> "CheckTransactionSanity", tx |-> tx]
    /\ loop = NoLoop /\ ret = NotReturned

\* CheckTransactionSanity as one function, for its callers
RECURSIVE SanityOfOutputs(_, _, _)
SanityOfOutputs(txOut, k, totalSatoshi) ==
  IF k > Len(txOut) THEN NoError
  ELSE IF ValueOutOfRange(txOut[k].Value) THEN ruleError("ErrBadTxOutValue")
  ELSE IF TotalOutOfRange(AddInt64(totalSatoshi, txOut[k].Value))
  THEN ruleError("ErrBadTxOutValue")
  ELSE SanityOfOutputs(txOut, k + 1, AddInt64(totalSatoshi, txOut[k].Value))
CheckTransactionSanity(msgTx) ==
  IF SanityOfShape(msgTx) # NoError THEN SanityOfShape(msgTx)
  ELSE IF SanityOfOutputs(msgTx.TxOut, 1, 0) # NoError
  THEN SanityOfOutputs(msgTx.TxOut, 1, 0)
  ELSE SanityOfInputs(msgTx)

\* an error that is no rule violation
PlainError(text) == [kind |-> "error", code |-> text]
\* behaviour flags
BFNone == {}
BFFastAdd == "BFFastAdd"
BFNoPoWCheck == "BFNoPoWCheck"

\* fork.CompactToBig: sign, mantissa and exponent of the compact form,
\* with a scaled base
CompactBase == 4
CompactToBig(bits) ==
  (IF bits.negative THEN -1 ELSE 1) * bits.mantissa * (CompactBase ^ bits.exponent)
\* a pow limit that was never set, and one that was
NilLimit == [set |-> FALSE, value |-> 0]
LimitOf(v) == [set |-> TRUE, value |-> v]

\* a hash test that turns away a hash equal to the target
HashNotBelow(bigHash, target) == bigHash >= target
\* the hash is above the target
HashAbove(bigHash, target) == bigHash > target
\* the target is above the limit
TargetAbove(target, limit) == target > limit

\* checkProofOfWork; header.powHash is HashToBig of BlockHashWithAlgos(height)
checkProofOfWork(header, powLimit, flags, height) ==
  IF ~powLimit.set THEN PlainError("PoW limit was not set")
  ELSE LET target == CompactToBig(header.Bits) IN
       IF target <= 0 THEN ruleError("ErrUnexpectedDifficulty")
       ELSE IF TargetAbove(target, powLimit.value) THEN ruleError("ErrUnexpectedDifficulty")
       ELSE IF BFNoPoWCheck \notin flags /\ HashAbove(header.powHash, target)
       THEN ruleError("ErrHighHash")
       ELSE NoError

\* MaxTimeOffsetSeconds, scaled down
MaxTimeOffsetSeconds == 2 * 6
\* checkBlockHeaderSanity; adjustedTime is timeSource.AdjustedTime()
checkBlockHeaderSanity(header, powLimit, adjustedTime, flags, height) ==
  IF checkProofOfWork(header, powLimit, flags, height) # NoError
  THEN checkProofOfWork(header, powLimit, flags, height)
  ELSE IF header.Timestamp.nsec # 0 THEN ruleError("ErrInvalidTime")
  ELSE IF header.Timestamp.sec > adjustedTime + MaxTimeOffsetSeconds
  THEN ruleError("ErrTimeTooNew")
  ELSE NoError

\* blockweight WitnessScaleFactor, scaled down
WitnessScaleFactor == 2
\* the rule error for a second coinbase names its index, counted from 0
MultipleCoinbases(index) ==
  [kind |-> "RuleError", code |-> "ErrMultipleCoinbases", index |-> index]
\* the first transaction is no coinbase
FirstTxNotCoinbase(msgTx) == ~IsCoinBaseTx(msgTx)
\* a scan for later coinbases that skips the second transaction
CoinbasesAfterSecond(transactions) ==
  {k \in 3..Len(transactions) : IsCoinBaseTx(transactions[k])}
\* the positions after the first that hold a coinbase
LaterCoinbases(transactions) ==
  {k \in 2..Len(transactions) : IsCoinBaseTx(transactions[k])}
Least(set) == CHOOSE k \in set : \A j \in set : k <= j
FirstInsane(transactions) ==
  Least({k \in 1..Len(transactions) : CheckTransactionSanity(transactions[k]) # NoError})
HasDuplicateTx(transactions) ==
  \E j \in 1..Len(transactions) : \E k \in 1..Len(transactions) :
     j < k /\ transactions[j].hash = transactions[k].hash
\* the sigop loop: the total after each transaction is tested
RECURSIVE SigOpsFrom(_, _, _)
SigOpsFrom(transactions, k, totalSigOps) ==
  IF k > Len(transactions) THEN NoError
  ELSE LET total == totalSigOps + transactions[k].sigOps * WitnessScaleFactor IN
       IF total < totalSigOps \/ total > MaxBlockSigOpsCost
       THEN ruleError("ErrTooManySigOps")
       ELSE SigOpsFrom(transactions, k + 1, total)

\* checkBlockSanity; the DoNotCheckPow argument is not read by the function.
\* msgBlock.size is SerializeSizeStripped, msgBlock.calculatedMerkleRoot the
\* root BuildMerkleTreeStore computes
checkBlockSanity(msgBlock, powLimit, adjustedTime, flags, DoNotCheckPow, height) ==
  LET header == msgBlock.Header
      transactions == msgBlock.Transactions
      numTx == Len(transactions) IN
  IF checkBlockHeaderSanity(header, powLimit, adjustedTime, flags, height) # NoError
  THEN checkBlockHeaderSanity(header, powLimit, adjustedTime, flags, height)
  ELSE IF numTx = 0 THEN ruleError("ErrNoTransactions")
  ELSE IF numTx > MaxBlockBaseSize THEN ruleError("ErrBlockTooBig")
  ELSE IF msgBlock.size > MaxBlockBaseSize THEN ruleError("ErrBlockTooBig")
  ELSE IF FirstTxNotCoinbase(transactions[1]) THEN ruleError("ErrFirstTxNotCoinbase")
  ELSE IF LaterCoinbases(transactions) # {}
  THEN MultipleCoinbases(Least(LaterCoinbases(transactions)) - 1)
  ELSE IF \E k \in 1..numTx : CheckTransactionSanity(transactions[k]) # NoError
  THEN CheckTransactionSanity(transactions[FirstInsane(transactions)])
  ELSE IF header.MerkleRoot # msgBlock.calculatedMerkleRoot
  THEN ruleError("ErrBadMerkleRoot")
  ELSE IF HasDuplicateTx(transactions) THEN ruleError("ErrDuplicateTx")
  ELSE SigOpsFrom(transactions, 1, 0)

\* the function returns error e, or nothing when e is no error
Answers(e) == IF e = NoError THEN Returns(0) ELSE Fails(e)

\* timeSource.AdjustedTime(), Unix seconds
AdjustedTime == 100
\* headers checkBlockSanity is given: a good one, and one for each header
\* check to refuse
TargetOf(mantissa, exponent) ==
  [negative |-> FALSE, mantissa |-> mantissa, exponent |-> exponent]
GoodHeader ==
  [Bits |-> TargetOf(1, 1), powHash |-> CompactBase,
   Timestamp |-> [sec |-> AdjustedTime + MaxTimeOffsetSeconds, nsec |-> 0],
   MerkleRoot |-> "root"]
SanityHeaders ==
  {GoodHeader,
   [GoodHeader EXCEPT !.powHash = CompactBase + 1],
   [GoodHeader EXCEPT !.Timestamp.nsec = 1],
   [GoodHeader EXCEPT !.Timestamp.sec = AdjustedTime + MaxTimeOffsetSeconds + 1]}
\* transactions of such a block: two coinbases, three ordinary transactions
\* and one that is not sane
BlockTx(hash, outpoint, value, sigOps) ==
  [hash |-> hash, TxIn |-> <<SanityIn(outpoint, MinCoinbaseScriptLen)>>,
   TxOut |-> <<PlainOut(value)>>, size |-> 1, sigOps |-> sigOps]
BlockTxs ==
  {BlockTx(NewCoinbaseId, NullOutpoint, 1, 1), BlockTx(OldCoinbaseId, NullOutpoint, 1, 0),
   BlockTx(TxAId, <<OldTxId, 0>>, 1, 1), BlockTx(TxBId, <<OldTxId, 1>>, 1, 2),
   BlockTx("txC", <<OldTxId, 2>>, 1, 0), BlockTx(OldTxId, <<OldTxId, 3>>, -1, 0)}
MaxBlockTxs == 3
TxLists ==
  UNION {[1..n -> BlockTxs] : n \in 0..MaxBlockTxs}
  \cup {[k \in 1..(MaxBlockBaseSize + 1) |->
          IF k = 1 THEN BlockTx(NewCoinbaseId, NullOutpoint, 1, 0)
          ELSE BlockTx(TxAId, <<OldTxId, 0>>, 1, 0)]}
SanityBlocks ==
  {[Header |-> header, Transactions |-> transactions, size |-> size,
    calculatedMerkleRoot |-> root] :
     header \in SanityHeaders, transactions \in TxLists,
     size \in {MaxBlockBaseSize, MaxBlockBaseSize + 1}, root \in {"root", "other"}}

InitCheckBlockSanity ==
  \E msgBlock \in SanityBlocks, powLimit \in {NilLimit, LimitOf(CompactBase)},
     flags \in {BFNone, {BFNoPoWCheck}}, DoNotCheckPow \in BOOLEAN :
    /\ call = [fn |-> "checkBlockSanity", block |-> msgBlock, powLimit |-> powLimit,
               adjustedTime |-> AdjustedTime, flags |-> flags,
               DoNotCheckPow |-> DoNotCheckPow, height |-> 1]
    /\ loop = NoLoop /\ ret = NotReturned

CallCheckBlockSanity ==
  /\ Calling("checkBlockSanity")
  /\ Answers(checkBlockSanity(call.block, call.powLimit, call.adjustedTime,
                              call.flags, call.DoNotCheckPow, call.height))
  /\ UNCHANGED <<call, loop, connectVars, templateVars>>

\* headers checkProofOfWork is given: targets from below zero to above the
\* limit, hashes on both sides of each target
MaxMantissa == 2
PowTargets ==
  {[negative |-> negative, mantissa |-> mantissa, exponent |-> exponent] :
     negative \in BOOLEAN, mantissa \in 0..MaxMantissa, exponent \in 0..1}
PowHeaders ==
  {[Bits |-> bits, powHash |-> powHash] :
     bits \in PowTargets, powHash \in 0..(MaxMantissa * CompactBase + 1)}
InitCheckProofOfWork ==
  \E header \in PowHeaders, powLimit \in {NilLimit, LimitOf(1), LimitOf(CompactBase)},
     flags \in {BFNone, {BFNoPoWCheck}, {BFFastAdd}} :
    /\ call = [fn |-> "checkProofOfWork", header |-> header, powLimit |-> powLimit,
               flags |-> flags, height |-> 1]
    /\ loop = NoLoop /\ ret = NotReturned

CallCheckProofOfWork ==
  /\ Calling("checkProofOfWork")
  /\ Answers(checkProofOfWork(call.header, call.powLimit, call.flags, call.height))
  /\ UNCHANGED <<call, loop, connectVars, templateVars>>

\* a block node that is nil, and the node at a height with the median time
\* CalcPastMedianTime gives, in whole seconds
NilNode == [nil |-> TRUE, height |-> 0, medianTime |-> 0]
NodeAt(height, medianTime) == [nil |-> FALSE, height |-> height, medianTime |-> medianTime]
\* a comparison that lets a timestamp equal to the median through
NotBefore(timestamp, seconds) == timestamp.sec >= seconds
\* Timestamp.After of a time of whole seconds
After(timestamp, seconds) ==
  timestamp.sec > seconds \/ (timestamp.sec = seconds /\ timestamp.nsec > 0)
\* verifyCheckpoint: a height without checkpoint matches every hash
verifyCheckpoint(checkpointsByHeight, height, hash) ==
  height \notin DOMAIN checkpointsByHeight \/ checkpointsByHeight[height] = hash
\* a fork test that also turns away the checkpoint's own height
ForksAtOrBefore(blockHeight, checkpointNode) ==
  ~checkpointNode.nil /\ blockHeight <= checkpointNode.height
\* the block forks the chain before the previous checkpoint
ForksBefore(blockHeight, checkpointNode) ==
  ~checkpointNode.nil /\ blockHeight < checkpointNode.height

\* checkBlockHeaderContext. b holds what the chain answers:
\* b.requiredDifficulty is the result of calcNextRequiredDifficulty,
\* b.checkpointsByHeight the configured checkpoints and b.previousCheckpoint
\* the result of findPreviousCheckpoint; header.hash is header.BlockHash()
checkBlockHeaderContext(b, header, prevNode, flags) ==
  IF prevNode.nil THEN NoError
  ELSE IF BFFastAdd \notin flags /\ b.requiredDifficulty.err # NoError
  THEN b.requiredDifficulty.err
  ELSE IF BFFastAdd \notin flags /\ header.Bits # b.requiredDifficulty.bits
  THEN ruleError("ErrUnexpectedDifficulty")
  ELSE IF BFFastAdd \notin flags /\ ~After(header.Timestamp, prevNode.medianTime)
  THEN ruleError("ErrTimeTooOld")
  ELSE LET blockHeight == prevNode.height + 1 IN
       IF ~verifyCheckpoint(b.checkpointsByHeight, blockHeight, header.hash)
       THEN ruleError("ErrBadCheckpoint")
       ELSE IF b.previousCheckpoint.err # NoError THEN b.previousCheckpoint.err
       ELSE IF ForksBefore(blockHeight, b.previousCheckpoint.node)
       THEN ruleError("ErrForkTooOld")
       ELSE NoError

\* the height of the one configured checkpoint, and its hash
CheckpointHeight == 2
CheckpointHash == "checkpoint"
NoCheckpoints == [h \in {} |-> CheckpointHash]
OneCheckpoint == [h \in {CheckpointHeight} |-> CheckpointHash]
\* what the chain answers: the difficulty is computed or not; there are no
\* checkpoints, or one that the chain has reached or not, or the search for
\* it fails
Found(checkpointNode) == [err |-> NoError, node |-> checkpointNode]
ChainAnswers ==
  {b \in [requiredDifficulty :
            {[err |-> CollabError("calcNextRequiredDifficulty"), bits |-> TargetOf(0, 0)],
             [err |-> NoError, bits |-> TargetOf(1, 1)]},
          checkpointsByHeight : {NoCheckpoints, OneCheckpoint},
          previousCheckpoint :
            {[err |-> CollabError("findPreviousCheckpoint"), node |-> NilNode],
             Found(NilNode), Found(NodeAt(CheckpointHeight, ParentMedianTime - 1))}] :
     b.checkpointsByHeight = NoCheckpoints => b.previousCheckpoint = Found(NilNode)}
ContextHeaders ==
  {[Bits |-> bits, Timestamp |-> [sec |-> sec, nsec |-> nsec], hash |-> hash] :
     bits \in {TargetOf(1, 1), TargetOf(2, 1)},
     sec \in (ParentMedianTime - 1)..(ParentMedianTime + 1), nsec \in {0, 1},
     hash \in {CheckpointHash, "other"}}
ParentNodes ==
  {NilNode} \cup {NodeAt(height, ParentMedianTime) : height \in 0..(CheckpointHeight + 1)}
InitCheckBlockHeaderContext ==
  \E b \in ChainAnswers, header \in ContextHeaders, prevNode \in ParentNodes,
     flags \in {BFNone, {BFFastAdd}, {BFNoPoWCheck}} :
    /\ call = [fn |-> "checkBlockHeaderContext", b |-> b, header |-> header,
               prevNode |-> prevNode, flags |-> flags]
    /\ loop = NoLoop /\ ret = NotReturned

CallCheckBlockHeaderContext ==
  /\ Calling("checkBlockHeaderContext")
  /\ Answers(checkBlockHeaderContext(call.b, call.header, call.prevNode, call.flags))
  /\ UNCHANGED <<call, loop, connectVars, templateVars>>

\* txscript.LockTimeThreshold, scaled down: lock times below it are heights
LockTimeThreshold == 4
\* a test that takes a lock time equal to the height or time as passed
LockReached(lockTime, blockTimeOrHeight) == lockTime <= blockTimeOrHeight
\* int64(lockTime) < blockTimeOrHeight; a uint32 keeps its value as int64
LockPassed(lockTime, blockTimeOrHeight) == lockTime < blockTimeOrHeight
\* IsFinalizedTransaction; blockTime is blockTime.Unix()
IsFinalizedTransaction(msgTx, blockHeight, blockTime) ==
  LET lockTime == msgTx.LockTime
      blockTimeOrHeight == IF lockTime < LockTimeThreshold THEN blockHeight ELSE blockTime IN
  IF lockTime = 0 THEN TRUE
  ELSE IF LockPassed(lockTime, blockTimeOrHeight) THEN TRUE
  ELSE \A k \in 1..Len(msgTx.TxIn) : msgTx.TxIn[k].Sequence = MaxUint32

\* transactions with every lock time and inputs of final and other sequences
MaxInputs == 2
SequenceLists ==
  UNION {[1..n -> {0, MaxUint32 - 1, MaxUint32}] : n \in 0..MaxInputs}
LockedTxs ==
  {[LockTime |-> lockTime, TxIn |-> [k \in 1..Len(sequences) |-> [Sequence |-> sequences[k]]]] :
     lockTime \in 0..MaxUint32, sequences \in SequenceLists}
InitIsFinalizedTransaction ==
  \E msgTx \in LockedTxs, blockHeight \in (-1)..(LockTimeThreshold + 1),
     blockTime \in (-1)..(MaxUint32 + 1) :
    /\ call = [fn |-> "IsFinalizedTransaction", tx |-> msgTx,
               blockHeight |-> blockHeight, blockTime |-> blockTime]
    /\ loop = NoLoop /\ ret = NotReturned

CallIsFinalizedTransaction ==
  /\ Calling("IsFinalizedTransaction")
  /\ Returns(IsFinalizedTransaction(call.tx, call.blockHeight, call.blockTime))
  /\ UNCHANGED <<call, loop, connectVars, templateVars>>

\* txscript opcodes, and the number of values of a byte
OP_0 == 0
OP_1 == 81
OP_16 == 96
ByteValues == 256
\* int32 of the little-endian uint64 of an 8-byte buffer: the low four bytes
\* in two's complement
Int32OfBytes(buf) ==
  (buf[4] - (IF buf[4] >= ByteValues \div 2 THEN ByteValues ELSE 0)) * ByteValues ^ 3
    + buf[3] * ByteValues ^ 2 + buf[2] * ByteValues + buf[1]
\* a length test that also turns away a script that ends with the height
ShortOrExact(sigScript, serializedLen) == Len(sigScript) - 1 <= serializedLen
\* len(sigScript[1:]) < serializedLen
TooShort(sigScript, serializedLen) == Len(sigScript) - 1 < serializedLen
MissingCoinbaseHeight == [height |-> 0, err |-> ruleError("ErrMissingCoinbaseHeight")]
\* ExtractCoinbaseHeight of a coinbase with the signature script sigScript
ExtractCoinbaseHeight(coinbaseTx) ==
  LET sigScript == coinbaseTx.TxIn[1].SignatureScript IN
  IF Len(sigScript) < 1 THEN MissingCoinbaseHeight
  ELSE LET opcode == sigScript[1] IN
       IF opcode = OP_0 THEN [height |-> 0, err |-> NoError]
       ELSE IF opcode >= OP_1 /\ opcode <= OP_16
       THEN [height |-> opcode - (OP_1 - 1), err |-> NoError]
       ELSE LET serializedLen == sigScript[1]
                copied == IF serializedLen < 8 THEN serializedLen ELSE 8
                serializedHeightBytes ==
                  [k \in 1..8 |-> IF k <= copied THEN sigScript[k + 1] ELSE 0] IN
            IF TooShort(sigScript, serializedLen) THEN MissingCoinbaseHeight
            ELSE [height |-> Int32OfBytes(serializedHeightBytes), err |-> NoError]

\* the standard encodings of a height: OP_0, OP_1..OP_16, or a length byte
\* and the little-endian bytes, the fewest that hold the height or, as a
\* script number, one zero byte more when the top bit is set
RECURSIVE LittleEndian(_)
LittleEndian(h) ==
  IF h = 0 THEN <<>> ELSE <<h % ByteValues>> \o LittleEndian(h \div ByteValues)
ScriptNum(h) ==
  LET bytes == LittleEndian(h) IN
  IF bytes[Len(bytes)] >= ByteValues \div 2 THEN bytes \o <<0>> ELSE bytes
PushOf(bytes) == <<Len(bytes)>> \o bytes
EncodeHeight(h, asScriptNum) ==
  IF h = 0 THEN <<OP_0>>
  ELSE IF h <= 16 THEN <<OP_1 - 1 + h>>
  ELSE PushOf(IF asScriptNum THEN ScriptNum(h) ELSE LittleEndian(h))
\* heights at the edges of each encoding
EncodedHeights ==
  {0, 1, 2, 15, 16, 17, 80, 81, 96, 97, 127, 128, 255, 256, 32767, 32768, 65535, 65536,
   2 ^ 20, 2 ^ 23 - 1, 2 ^ 23, 2 ^ 24 - 1, 2 ^ 24, 2 ^ 30, (2 ^ 30 - 1) * 2 + 1}
\* what follows the height in the script
ScriptTails == {<<>>, <<255>>, <<OP_1, 0, 4>>}
\* scripts that hold no height, or none that was encoded: empty, shorter
\* than announced, longer than the buffer, beyond int32
OtherScripts ==
  {<<>>, <<1>>, <<2, 17>>, <<3, 0, 0>>, <<4, 255, 255, 255>>, <<75>>, <<80, 1>>, <<97, 1, 2>>,
   <<255, 0, 0, 0>>, <<4, 0, 0, 0, 128>>, <<5, 255, 255, 255, 255, 1>>,
   <<9, 1, 0, 0, 0, 0, 0, 0, 0, 1>>, <<8, 2, 0, 0, 0, 1, 0, 0, 0>>}
CoinbaseScripts ==
  {EncodeHeight(h, asScriptNum) \o tail :
     h \in EncodedHeights, asScriptNum \in BOOLEAN, tail \in ScriptTails}
  \cup OtherScripts
InitExtractCoinbaseHeight ==
  \E sigScript \in CoinbaseScripts :
    /\ call = [fn |-> "ExtractCoinbaseHeight",
               tx |-> [TxIn |-> <<[SignatureScript |-> sigScript]>>]]
    /\ loop = NoLoop /\ ret = NotReturned

CallExtractCoinbaseHeight ==
  /\ Calling("ExtractCoinbaseHeight")
  /\ LET r == ExtractCoinbaseHeight(call.tx) IN
       IF r.err = NoError THEN Returns(r.height) ELSE Fails(r.err)
  /\ UNCHANGED <<call, loop, connectVars, templateVars>>

\* serializedHeightVersion, and ShouldHaveSerializedBlockHeight
serializedHeightVersion == 2
ShouldHaveSerializedBlockHeight(header) == header.Version >= serializedHeightVersion
\* serializedHeight != wantHeight
HeightDiffers(serializedHeight, wantHeight) == serializedHeight # wantHeight
\* checkSerializedHeight
checkSerializedHeight(coinbaseTx, wantHeight) ==
  LET r == ExtractCoinbaseHeight(coinbaseTx) IN
  IF r.err # NoError THEN r.err
  ELSE IF HeightDiffers(r.height, wantHeight) THEN ruleError("ErrBadCoinbaseHeight")
  ELSE NoError

\* blockweight.MaxBlockWeight, scaled down
MaxBlockWeight == 40
\* checkBlockContext. Besides the answers checkBlockHeaderContext needs, b
\* holds b.params.Net, the results of deploymentState for CSV and segwit
\* and of ValidateWitnessCommitment; blk.weight is GetBlockWeight(block).
\* The DoNotCheckPow argument is not read by the function.
checkBlockContext(b, blk, prevNode, flags, DoNotCheckPow) ==
  LET header == blk.Header
      transactions == blk.Transactions
      blockTime == IF b.csvState.state = "active" THEN prevNode.medianTime
                   ELSE header.Timestamp.sec
      blockHeight == prevNode.height + 1 IN
  IF checkBlockHeaderContext(b, header, prevNode, flags) # NoError
  THEN checkBlockHeaderContext(b, header, prevNode, flags)
  ELSE IF BFFastAdd \in flags THEN NoError
  ELSE IF b.csvState.err # NoError THEN b.csvState.err
  ELSE IF prevNode.nil THEN Panic
  ELSE IF \E k \in 1..Len(transactions) :
            ~IsFinalizedTransaction(transactions[k], blockHeight, blockTime)
  THEN ruleError("ErrUnfinalizedTx")
  ELSE IF /\ ShouldHaveSerializedBlockHeight(header)
          /\ blockHeight >= BIP0034Height(b.net)
          /\ Len(transactions) = 0
  THEN Panic
  ELSE IF /\ ShouldHaveSerializedBlockHeight(header)
          /\ blockHeight >= BIP0034Height(b.net)
          /\ checkSerializedHeight(transactions[1], blockHeight) # NoError
  THEN checkSerializedHeight(transactions[1], blockHeight)
  ELSE IF b.segwitState.err # NoError THEN b.segwitState.err
  ELSE IF b.segwitState.state # "active" THEN NoError
  ELSE IF b.witnessCommitment # NoError THEN b.witnessCommitment
  ELSE IF blk.weight > MaxBlockWeight THEN ruleError("ErrBlockWeightTooHigh")
  ELSE NoError

\* what the chain answers to checkBlockContext: all is well, or one of the
\* deployments is active or cannot be told, or the witness commitment is bad
State(state) == [err |-> NoError, state |-> state]
NoState(fn) == [err |-> CollabError(fn), state |-> "started"]
QuietChain ==
  [requiredDifficulty |-> [err |-> NoError, bits |-> TargetOf(1, 1)],
   checkpointsByHeight |-> NoCheckpoints, previousCheckpoint |-> Found(NilNode),
   net |-> TestNet3, csvState |-> State("started"), segwitState |-> State("started"),
   witnessCommitment |-> NoError]
ContextChains ==
  {QuietChain,
   [QuietChain EXCEPT !.csvState = State("active")],
   [QuietChain EXCEPT !.csvState = NoState("deploymentState")],
   [QuietChain EXCEPT !.segwitState = NoState("deploymentState")],
   [QuietChain EXCEPT !.segwitState = State("active")],
   [QuietChain EXCEPT !.segwitState = State("active"),
                      !.witnessCommitment = ruleError("ErrUnexpectedWitness")],
   [QuietChain EXCEPT !.net = MainNet]}
\* coinbase scripts for a block at height h: the height and its neighbours
\* in their standard form, the height as a push of one byte, of five and of
\* nine bytes with a set bit beyond the fourth, a negative number, a short
\* push and no script
HeightScripts(h) ==
  {EncodeHeight(x, TRUE) : x \in (h - 1)..(h + 1)}
  \cup {<<1, h>>, <<1, h + 1>>, <<5, h, 0, 0, 0, 1>>, <<5, h + 1, 0, 0, 0, 1>>,
        <<9, h, 0, 0, 0, 0, 0, 0, 0, 1>>, <<4, h, 0, 0, 128>>, <<2, h>>, <<>>}
ContextTx(lockTime, sequence, sigScript) ==
  [LockTime |-> lockTime,
   TxIn |-> <<[Sequence |-> sequence, SignatureScript |-> sigScript]>>]
\* transactions after the coinbase: none, a final one, and one locked
\* until a height
OtherTxs ==
  {<<>>, <<ContextTx(0, 0, <<>>)>>, <<ContextTx(LockTimeThreshold - 1, MaxUint32 - 1, <<>>)>>}
ContextBlocks(h) ==
  {[Header |-> [Bits |-> TargetOf(1, 1), hash |-> OtherHash, Version |-> version,
                Timestamp |-> [sec |-> ParentMedianTime + 1, nsec |-> 0]],
    Transactions |-> <<ContextTx(0, MaxUint32, sigScript)>> \o others,
    weight |-> weight] :
     version \in {serializedHeightVersion - 1, serializedHeightVersion},
     sigScript \in HeightScripts(h), others \in OtherTxs,
     weight \in {MaxBlockWeight, MaxBlockWeight + 1}}
  \cup {[Header |-> [Bits |-> TargetOf(1, 1), hash |-> OtherHash,
                     Version |-> serializedHeightVersion,
                     Timestamp |-> [sec |-> ParentMedianTime + 1, nsec |-> 0]],
         Transactions |-> <<>>, weight |-> 0]}
InitCheckBlockContext ==
  \E b \in ContextChains,
     prevNode \in {NilNode} \cup {NodeAt(height, ParentMedianTime) :
                      height \in (BIP0034HeightTest - 2)..BIP0034HeightTest},
     flags \in {BFNone, {BFFastAdd}, {BFNoPoWCheck}} :
    \E blk \in ContextBlocks(prevNode.height + 1) :
      /\ call = [fn |-> "checkBlockContext", b |-> b, block |-> blk,
                 prevNode |-> prevNode, flags |-> flags, DoNotCheckPow |-> TRUE]
      /\ loop = NoLoop /\ ret = NotReturned

CallCheckBlockContext ==
  /\ Calling("checkBlockContext")
  /\ Answers(checkBlockContext(call.b, call.block, call.prevNode, call.flags,
                               call.DoNotCheckPow))
  /\ UNCHANGED <<call, loop, connectVars, templateVars>>

\* ------------------------------------------------------------------------
\* chainhash: Hash.String, Decode, Hash.IsEqual
\* ------------------------------------------------------------------------

\* HashSize is 2 * HalfHashSize: 32 in the program, scaled here
HalfHashSize == 2
HashSize == 2 * HalfHashSize
MaxHashStringSize == HashSize * 2
HashError(c) == [kind |-> "error", code |-> c]
ErrHashStrSize == HashError("ErrHashStrSize")
InvalidByteError == HashError("hex.InvalidByteError")

\* encoding/hex: two digits a byte, high digit first; the decoder takes
\* upper case digits as well
hextable == <<"0", "1", "2", "3", "4", "5", "6", "7",
              "8", "9", "a", "b", "c", "d", "e", "f">>
UpperDigits == <<"A", "B", "C", "D", "E", "F">>
EncodeToString(src) ==
  [k \in 1..(2 * Len(src)) |->
     IF k % 2 = 1 THEN hextable[src[(k + 1) \div 2] \div 16 + 1]
     ELSE hextable[(src[k \div 2] % 16) + 1]]
\* the value of a digit, -1 for any other character
fromHexChar(ch) ==
  IF \E d \in DOMAIN hextable : hextable[d] = ch
  THEN (CHOOSE d \in DOMAIN hextable : hextable[d] = ch) - 1
  ELSE IF \E d \in DOMAIN UpperDigits : UpperDigits[d] = ch
       THEN (CHOOSE d \in DOMAIN UpperDigits : UpperDigits[d] = ch) + 9
       ELSE -1
\* hex.Decode of a text of even length: the bytes, or InvalidByteError
HexDecode(src) ==
  IF \E k \in DOMAIN src : fromHexChar(src[k]) < 0
  THEN [err |-> InvalidByteError, bytes |-> <<>>]
  ELSE [err |-> NoError,
        bytes |-> [k \in 1..(Len(src) \div 2) |->
                     fromHexChar(src[2 * k - 1]) * 16 + fromHexChar(src[2 * k])]]

\* the array as it was
Unswapped(hash) == hash
\* hash[i], hash[HashSize-1-i] = hash[HashSize-1-i], hash[i] for every i below
\* HashSize/2
Swapped(hash) ==
  [k \in 1..HashSize |->
     IF k <= HashSize \div 2 \/ k > HashSize - HashSize \div 2
     THEN hash[HashSize + 1 - k] ELSE hash[k]]
\* Hash.String: the receiver is a copy of the caller's array
HashString(hash) == EncodeToString(Swapped(hash))

\* Decode(dst, src): the error and the bytes of dst afterwards
Decode(dst, src) ==
  IF Len(src) > MaxHashStringSize THEN [err |-> ErrHashStrSize, dst |-> dst]
  ELSE LET srcBytes == IF Len(src) % 2 = 0 THEN src ELSE <<"0">> \o src
           decoded == HexDecode(srcBytes)
           \* the temporary is zeroed and filled from HashSize - DecodedLen on
           reversedHash ==
             [k \in 1..HashSize |->
                IF k <= HashSize - Len(srcBytes) \div 2 THEN 0
                ELSE decoded.bytes[k - (HashSize - Len(srcBytes) \div 2)]]
       IN IF decoded.err # NoError THEN [err |-> decoded.err, dst |-> dst]
          ELSE [err |-> NoError,
                dst |-> [k \in 1..HashSize |->
                           IF k <= HashSize \div 2 \/ k > HashSize - HashSize \div 2
                           THEN reversedHash[HashSize + 1 - k] ELSE dst[k]]]

\* pointers to hashes: nil, or the array pointed to
NilHash == [nil |-> TRUE, bytes |-> <<>>]
HashAt(bytes) == [nil |-> FALSE, bytes |-> bytes]
\* hash == nil || target == nil
EitherNil(hash, target) == hash.nil \/ target.nil
IsEqual(hash, target) ==
  IF hash.nil /\ target.nil THEN TRUE
  ELSE IF EitherNil(hash, target) THEN FALSE
  ELSE hash.bytes = target.bytes

\* hashes with leading zero digits, zero bytes and bytes above 0x7f
HashBytes == {0, 10, 171, 255}
Hashes == [1..HashSize -> HashBytes]
ZeroHash == [k \in 1..HashSize |-> 0]
\* texts that are no Hash.String(): empty, short, of odd length, in upper
\* case, with a character that is no digit, and too long
OtherTexts ==
  {<<>>, <<"1">>, <<"a", "b">>, <<"A", "B">>, <<"1", "0", "f">>,
   <<"g", "0">>, <<"0", "x", "1">>,
   [k \in 1..MaxHashStringSize |-> "f"],
   [k \in 1..(MaxHashStringSize + 1) |-> "0"]}
\* hashes that agree in all bytes, or differ in some
ComparedHashes == {NilHash} \cup {HashAt(bytes) : bytes \in [1..HashSize -> {0, 255}]}

InitHashString ==
  \E hash \in Hashes :
    /\ call = [fn |-> "Hash.String", hash |-> hash]
    /\ loop = NoLoop /\ ret = NotReturned
\* the caller's array is what it was: String has a value receiver
CallHashString ==
  /\ Calling("Hash.String")
  /\ Returns([text |-> HashString(call.hash), hash |-> call.hash])
  /\ UNCHANGED <<call, loop, connectVars, templateVars>>
\* NewHashFromStr of the text Hash.String returned
NewHashFromText ==
  /\ call.fn = "Hash.String" /\ ret.done
  /\ call' = [fn |-> "Decode", dst |-> ZeroHash, src |-> ret.value.text,
              of |-> call.hash]
  /\ ret' = NotReturned
  /\ UNCHANGED <<loop, connectVars, templateVars>>
InitDecode ==
  \E src \in OtherTexts : \E dst \in {ZeroHash, [k \in 1..HashSize |-> 255]} :
    /\ call = [fn |-> "Decode", dst |-> dst, src |-> src, of |-> <<>>]
    /\ loop = NoLoop /\ ret = NotReturned
CallDecode ==
  /\ Calling("Decode")
  /\ LET r == Decode(call.dst, call.src) IN
     ret' = [done |-> TRUE, err |-> r.err, value |-> r.dst]
  /\ UNCHANGED <<call, loop, connectVars, templateVars>>
InitIsEqual ==
  \E hash \in ComparedHashes : \E target \in ComparedHashes :
    /\ call = [fn |-> "Hash.IsEqual", hash |-> hash, target |-> target]
    /\ loop = NoLoop /\ ret = NotReturned
CallIsEqual ==
  /\ Calling("Hash.IsEqual")
  /\ Returns(IsEqual(call.hash, call.target))
  /\ UNCHANGED <<call, loop, connectVars, templateVars>>

\* the fee accumulator of checkConnectBlock alone: lastTotalFees := totalFees;
\* totalFees += txFee; ErrBadFees if totalFees < lastTotalFees
AccumulateFees(fees, txFee) ==
  LET total == AddInt64(fees, txFee) IN
  [totalFees |-> total,
   err |-> IF FeesOverflow(total, fees) THEN ruleError("ErrBadFees") ELSE NoError]
\* totals up to the end of the int64 range and fees up to MaxSatoshi
FeeTotals ==
  {0, 1, MaxInt64 - MaxSatoshi - 1, MaxInt64 - MaxSatoshi,
   MaxInt64 - MaxSatoshi + 1, MaxInt64 - 1, MaxInt64}
TxFees == {0, 1, MaxSatoshi - 1, MaxSatoshi}
InitAccumulateFees ==
  \E fees \in FeeTotals : \E txFee \in TxFees :
    /\ call = [fn |-> "totalFees += txFee", totalFees |-> fees, txFee |-> txFee]
    /\ loop = NoLoop /\ ret = NotReturned
CallAccumulateFees ==
  /\ Calling("totalFees += txFee")
  /\ LET r == AccumulateFees(call.totalFees, call.txFee) IN
     IF r.err = NoError THEN Returns(r.totalFees) ELSE Fails(r.err)
  /\ UNCHANGED <<call, loop, connectVars, templateVars>>

\* CheckBlockSanity, the exported function: checkBlockSanity with BFNone
CheckBlockSanity(msgBlock, powLimit, adjustedTime, DoNotCheckPow, height) ==
  checkBlockSanity(msgBlock, powLimit, adjustedTime, BFNone, DoNotCheckPow, height)
InitExportedCheckBlockSanity ==
  \E msgBlock \in SanityBlocks, DoNotCheckPow \in BOOLEAN :
    /\ call = [fn |-> "CheckBlockSanity", block |-> msgBlock,
               powLimit |-> LimitOf(CompactBase), adjustedTime |-> AdjustedTime,
               DoNotCheckPow |-> DoNotCheckPow, height |-> 1]
    /\ loop = NoLoop /\ ret = NotReturned
CallExportedCheckBlockSanity ==
  /\ Calling("CheckBlockSanity")
  /\ Answers(CheckBlockSanity(call.block, call.powLimit, call.adjustedTime,
                              call.DoNotCheckPow, call.height))
  /\ UNCHANGED <<call, loop, connectVars, templateVars>>

\* the calls of the functions
HelperInit ==
  /\ NoConnect
  /\ NoTemplate
  /\ \/ InitCalcBlockSubsidy
     \/ InitCheckTransactionSanity
     \/ InitCheckBlockSanity
     \/ InitCheckProofOfWork
     \/ InitCheckBlockHeaderContext
     \/ InitIsFinalizedTransaction
     \/ InitExtractCoinbaseHeight
     \/ InitCheckBlockContext
     \/ InitHashString
     \/ InitDecode
     \/ InitIsEqual
     \/ InitExportedCheckBlockSanity

HelperNext ==
  \/ CallCalcBlockSubsidy
  \/ SanityStart
  \/ SanityOutput
  \/ SanityInputs
  \/ CallCheckBlockSanity
  \/ CallCheckProofOfWork
  \/ CallCheckBlockHeaderContext
  \/ CallIsFinalizedTransaction
  \/ CallExtractCoinbaseHeight
  \/ CallCheckBlockContext
  \/ CallHashString
  \/ NewHashFromText
  \/ CallDecode
  \/ CallIsEqual
  \/ CallExportedCheckBlockSanity

HelperSpec == HelperInit /\ [][HelperNext]_vars

\* checkConnectBlock, and its fee accumulator on totals no block of the
\* model adds up to
ValueInit ==
  \/ Init
  \/ NoConnect /\ NoTemplate /\ InitAccumulateFees
ValueNext ==
  \/ Next
  \/ CallAccumulateFees
ValueSpec == ValueInit /\ [][ValueNext]_vars

\* ------------------------------------------------------------------------
\* Properties of the functions
\* ------------------------------------------------------------------------

Done(fn) == call.fn = fn /\ ret.done

\* the hard fork height of the network the call is for
AtForkHeight ==
  \/ call.net = MainNet /\ call.height = ActivationHeight
  \/ call.net = TestNet3 /\ call.height = TestnetStart
PayeesOf(n) == IF n = TestNet3 THEN TestnetPayees ELSE Payees
CoreAmountOf(n) == IF n = TestNet3 THEN TestnetCoreAmount ELSE CoreAmount

\* C11, as claimed: at the hard fork height of a network CalcBlockSubsidy
\* returns the payee amounts of the network plus the subsidy of the next
\* height plus the core amount of the network, the amount the layout check
\* of checkConnectBlock requires the coinbase to pay to the core fund.
C11_CoreAmountOfNetwork ==
  Done("CalcBlockSubsidy") /\ AtForkHeight =>
    ret.value = SumAmounts(PayeesOf(call.net))
                + CalcBlockSubsidy(call.height + 1, call.net, call.version)
                + CoreAmountOf(call.net)

\* x halved n times, rounding down
RECURSIVE Halved(_, _)
Halved(x, n) == IF n = 0 \/ x = 0 THEN x ELSE Halved(x \div 2, n - 1)
PreFork == GetCurrent(call.net, call.height) = 0

\* C12: before the fork CalcBlockSubsidy returns baseSubsidy shifted right
\* by height / SubsidyReductionInterval, rounded down: baseSubsidy at height
\* 0, half of it at height SubsidyReductionInterval, never negative and
\* never more than at a lower height.
C12_PreForkHalving ==
  Done("CalcBlockSubsidy") /\ PreFork =>
    /\ ret.value = Halved(baseSubsidy, call.height \div SubsidyReductionInterval)
    /\ call.height = 0 => ret.value = baseSubsidy
    /\ call.height = SubsidyReductionInterval => ret.value = baseSubsidy \div 2
    /\ ret.value >= 0
    /\ \A h \in SubsidyHeights :
         h <= call.height =>
           ret.value <= CalcBlockSubsidy(h, call.net, call.version)

\* the subsidy at the first halving
C12_Witness ==
  /\ Done("CalcBlockSubsidy") /\ PreFork
  /\ call.height = SubsidyReductionInterval
  /\ ret.value = baseSubsidy \div 2 /\ ret.value > 0

\* the sum of the first n output values, as a number
RECURSIVE TrueSum(_, _)
TrueSum(txOut, n) == IF n = 0 THEN 0 ELSE TrueSum(txOut, n - 1) + txOut[n].Value
\* output n is negative, above MaxSatoshi, or lifts the sum above MaxSatoshi
BadOutput(txOut, n) ==
  \/ txOut[n].Value < 0
  \/ txOut[n].Value > MaxSatoshi
  \/ TrueSum(txOut, n) > MaxSatoshi
FirstBadOutput(txOut, n) ==
  BadOutput(txOut, n) /\ \A m \in 1..(n - 1) : ~BadOutput(txOut, m)
InOutputLoop == call.fn = "CheckTransactionSanity" /\ loop.k >= 1
ValueError == ret.done /\ ret.err = ruleError("ErrBadTxOutValue")

\* C13: the running total of CheckTransactionSanity is the true sum of the
\* values added so far and is never above 2 * MaxSatoshi, so it cannot
\* wrap; the call fails with BadTxOutValue at the first output that is
\* negative, above MaxSatoshi or lifts the sum above MaxSatoshi, and
\* otherwise leaves the loop with the true total, which is in
\* 0..MaxSatoshi.
C13_TotalNeverWraps ==
  InOutputLoop =>
    LET txOut == call.tx.TxOut IN
    /\ loop.totalSatoshi = TrueSum(txOut, loop.k - 1)
    /\ loop.totalSatoshi >= 0 /\ loop.totalSatoshi <= 2 * MaxSatoshi
    /\ 2 * MaxSatoshi <= MaxInt64
    /\ ValueError =>
         \/ loop.k <= Len(txOut) /\ FirstBadOutput(txOut, loop.k)
         \/ loop.k > 1 /\ FirstBadOutput(txOut, loop.k - 1)
    /\ ~ValueError =>
         /\ \A n \in 1..(loop.k - 1) : ~BadOutput(txOut, n)
         /\ loop.totalSatoshi <= MaxSatoshi
    /\ ~ValueError /\ loop.k = Len(txOut) + 1 =>
         loop.totalSatoshi = TrueSum(txOut, Len(txOut))

\* two outputs of MaxSatoshi: the total reaches 2 * MaxSatoshi and is refused
C13_Witness ==
  /\ InOutputLoop /\ ValueError
  /\ loop.k = 3 /\ loop.totalSatoshi = 2 * MaxSatoshi

\* what makes a transaction sane, rule by rule
SanityCall == call.fn = "CheckTransactionSanity"
InputOutpoints(msgTx) ==
  {msgTx.TxIn[k].PreviousOutPoint : k \in 1..Len(msgTx.TxIn)}
ValuesInRange(msgTx) ==
  /\ \A n \in 1..Len(msgTx.TxOut) : msgTx.TxOut[n].Value \in 0..MaxSatoshi
  /\ TrueSum(msgTx.TxOut, Len(msgTx.TxOut)) \in 0..MaxSatoshi
DistinctInputs(msgTx) == Cardinality(InputOutpoints(msgTx)) = Len(msgTx.TxIn)
IsACoinbase(msgTx) == Len(msgTx.TxIn) = 1 /\ InputOutpoints(msgTx) = {NullOutpoint}
CoinbaseScriptFits(msgTx) ==
  Len(msgTx.TxIn[1].SignatureScript) \in MinCoinbaseScriptLen..MaxCoinbaseScriptLen
FirstViolation(msgTx) ==
  IF Len(msgTx.TxIn) < 1 THEN "ErrNoTxInputs"
  ELSE IF Len(msgTx.TxOut) < 1 THEN "ErrNoTxOutputs"
  ELSE IF ~(msgTx.size <= MaxBlockBaseSize) THEN "ErrTxTooBig"
  ELSE IF ~ValuesInRange(msgTx) THEN "ErrBadTxOutValue"
  ELSE IF ~DistinctInputs(msgTx) THEN "ErrDuplicateTxInputs"
  ELSE IF IsACoinbase(msgTx) /\ ~CoinbaseScriptFits(msgTx) THEN "ErrBadCoinbaseScriptLen"
  ELSE IF ~IsACoinbase(msgTx) /\ NullOutpoint \in InputOutpoints(msgTx) THEN "ErrBadTxInput"
  ELSE "none"

\* C14: CheckTransactionSanity succeeds exactly for a transaction with an
\* input and an output, of a stripped size within MaxBlockBaseSize, with
\* every output value and their sum in 0..MaxSatoshi, with no outpoint
\* named by two inputs, and either a coinbase with a signature script of
\* 2 to 100 bytes or no coinbase and no input naming the null outpoint;
\* otherwise it returns the first rule violated, in that order. It reads
\* and changes no chain state.
C14_SanityVerdict ==
  /\ Done("CheckTransactionSanity") =>
       /\ ret.err = NoError <=> FirstViolation(call.tx) = "none"
       /\ ret.err # NoError => ret.err = ruleError(FirstViolation(call.tx))
  /\ SanityCall => pc = "idle" /\ view = view0 /\ fetches = 0

\* a coinbase with the longest script allowed is sane
C14_Witness ==
  /\ Done("CheckTransactionSanity") /\ ret.err = NoError
  /\ IsACoinbase(call.tx)
  /\ Len(call.tx.TxIn[1].SignatureScript) = MaxCoinbaseScriptLen

\* the block checkBlockSanity was given
Txs == call.block.Transactions
Accepted(fn) == Done(fn) /\ ret.err = NoError
\* the header check and the size checks, which come first, pass
HeaderPasses ==
  checkBlockHeaderSanity(call.block.Header, call.powLimit, call.adjustedTime,
                         call.flags, call.height) = NoError
SizePasses == Len(Txs) <= MaxBlockBaseSize /\ call.block.size <= MaxBlockBaseSize
CoinbasePositions == {k \in 1..Len(Txs) : IsACoinbase(Txs[k])}

\* C15: a block checkBlockSanity accepts has a transaction, its first
\* transaction is a coinbase and no other is. Of the blocks that pass the
\* header check, one without transactions fails with NoTransactions; of
\* those that pass the size checks too, one whose first transaction is no
\* coinbase fails with FirstTxNotCoinbase and one with a coinbase at a
\* later index fails with MultipleCoinbases, which names the first such
\* index.
C15_OneCoinbaseFirst ==
  /\ Accepted("checkBlockSanity") => Len(Txs) >= 1 /\ CoinbasePositions = {1}
  /\ Done("checkBlockSanity") /\ HeaderPasses =>
       /\ ret.err = ruleError("ErrNoTransactions") <=> Len(Txs) = 0
       /\ Len(Txs) >= 1 /\ SizePasses =>
            /\ ret.err = ruleError("ErrFirstTxNotCoinbase") <=> 1 \notin CoinbasePositions
            /\ \A k \in 2..Len(Txs) :
                 ret.err = MultipleCoinbases(k - 1)
                   <=> /\ {1, k} \subseteq CoinbasePositions
                       /\ \A j \in 2..(k - 1) : j \notin CoinbasePositions

\* a coinbase as third transaction, reported with index 2
C15_Witness ==
  /\ Done("checkBlockSanity") /\ Len(Txs) = 3
  /\ CoinbasePositions = {1, 3} /\ ret.err = MultipleCoinbases(2)

\* checkProofOfWork was given a limit, and its target lies within it
PowCall == call.fn = "checkProofOfWork" /\ call.powLimit.set
Target == CompactToBig(call.header.Bits)
TargetInBounds == Target > 0 /\ Target <= call.powLimit.value
PowChecked == BFNoPoWCheck \notin call.flags

ContextCall == call.fn = "checkBlockHeaderContext" /\ ~call.prevNode.nil
FastAdd == BFFastAdd \in call.flags
DifficultyComputed == call.b.requiredDifficulty.err = NoError
DifficultyDiffers == call.header.Bits # call.b.requiredDifficulty.bits
\* the header's time is at or before the parent's median time
NotAfterMedian ==
  \/ call.header.Timestamp.sec < call.prevNode.medianTime
  \/ call.header.Timestamp.sec = call.prevNode.medianTime /\ call.header.Timestamp.nsec = 0

\* C17: given a parent and without BFFastAdd, checkBlockHeaderContext fails
\* with UnexpectedDifficulty exactly when the required difficulty was
\* computed and differs from header.Bits, and otherwise with TimeTooOld
\* exactly when the timestamp is not after the parent's median time, a
\* timestamp equal to it included. With BFFastAdd neither is returned, and
\* the result is that of the call without it for a header of the required
\* difficulty and a later time: the checkpoint checks are made.
C17_DifficultyThenTime ==
  Done("checkBlockHeaderContext") /\ ContextCall =>
    /\ ~FastAdd /\ DifficultyComputed =>
         /\ ret.err = ruleError("ErrUnexpectedDifficulty") <=> DifficultyDiffers
         /\ ret.err = ruleError("ErrTimeTooOld") <=> ~DifficultyDiffers /\ NotAfterMedian
    /\ FastAdd =>
         /\ ret.err \notin {ruleError("ErrUnexpectedDifficulty"), ruleError("ErrTimeTooOld")}
         /\ ret.err \notin {CollabError("calcNextRequiredDifficulty")}
         /\ ret.err =
              checkBlockHeaderContext(
                [call.b EXCEPT !.requiredDifficulty = [err |-> NoError, bits |-> call.header.Bits]],
                [call.header EXCEPT !.Timestamp = [sec |-> call.prevNode.medianTime + 1, nsec |-> 0]],
                call.prevNode, BFNone)

\* with BFFastAdd a header of the wrong difficulty and an old time is
\* accepted, and one at the checkpoint's height with another hash is not
C17_Witness ==
  /\ Done("checkBlockHeaderContext") /\ ContextCall /\ FastAdd
  /\ DifficultyDiffers /\ NotAfterMedian
  /\ ret.err = ruleError("ErrBadCheckpoint")

\* the height of the header, the configured checkpoint it misses and the
\* checkpoint the chain has passed
BlockHeight == call.prevNode.height + 1
MissesCheckpoint ==
  /\ BlockHeight \in DOMAIN call.b.checkpointsByHeight
  /\ call.b.checkpointsByHeight[BlockHeight] # call.header.hash
PreviousCheckpointFound == call.b.previousCheckpoint.err = NoError
BelowPreviousCheckpoint ==
  /\ ~call.b.previousCheckpoint.node.nil
  /\ BlockHeight < call.b.previousCheckpoint.node.height
\* the difficulty and time checks are skipped or passed
ReachesCheckpoints ==
  FastAdd \/ (DifficultyComputed /\ ~DifficultyDiffers /\ ~NotAfterMedian)

\* C18: for a header with a parent that is past the difficulty and time
\* checks, checkBlockHeaderContext fails with BadCheckpoint exactly when a
\* checkpoint is configured at the header's height with another hash, and
\* otherwise, the previous checkpoint found, with ForkTooOld exactly when
\* the height is below that checkpoint's; a header at the checkpoint's own
\* height is not ForkTooOld. No accepted header with a parent misses a
\* checkpoint or lies below the previous one.
C18_CheckpointConformance ==
  Done("checkBlockHeaderContext") /\ ContextCall =>
    /\ ReachesCheckpoints =>
         /\ ret.err = ruleError("ErrBadCheckpoint") <=> MissesCheckpoint
         /\ ~MissesCheckpoint /\ PreviousCheckpointFound =>
              (ret.err = ruleError("ErrForkTooOld") <=> BelowPreviousCheckpoint)
    /\ ~call.b.previousCheckpoint.node.nil
         /\ BlockHeight = call.b.previousCheckpoint.node.height
         => ret.err # ruleError("ErrForkTooOld")
    /\ ret.err = NoError => ~MissesCheckpoint /\ ~BelowPreviousCheckpoint

\* a header at the previous checkpoint's height with the checkpoint's hash
\* is accepted
C18_Witness ==
  /\ Done("checkBlockHeaderContext") /\ ContextCall
  /\ ~call.b.previousCheckpoint.node.nil
  /\ BlockHeight = call.b.previousCheckpoint.node.height
  /\ BlockHeight \in DOMAIN call.b.checkpointsByHeight
  /\ ret.err = NoError

\* the lock time of the transaction IsFinalizedTransaction was given
LockTime == call.tx.LockTime
AllSequencesFinal == \A k \in 1..Len(call.tx.TxIn) : call.tx.TxIn[k].Sequence = MaxUint32

\* C19: IsFinalizedTransaction is true exactly when the lock time is 0, or
\* is a height (below LockTimeThreshold) below blockHeight, or is a time
\* (LockTimeThreshold or more) below blockTime, or every input has sequence
\* MaxUint32. So final sequences make every lock time final, and a lock
\* time equal to the height or time is final only through the sequences.
C19_FinalIff ==
  Done("IsFinalizedTransaction") =>
    /\ ret.value <=> \/ LockTime = 0
                     \/ LockTime < LockTimeThreshold /\ LockTime < call.blockHeight
                     \/ LockTime >= LockTimeThreshold /\ LockTime < call.blockTime
                     \/ AllSequencesFinal
    /\ AllSequencesFinal => ret.value
    /\ /\ LockTime # 0
       /\ LockTime = (IF LockTime < LockTimeThreshold THEN call.blockHeight ELSE call.blockTime)
       => (ret.value <=> AllSequencesFinal)

\* a lock time equal to the block's time, one input short of final: not final
C19_Witness ==
  /\ Done("IsFinalizedTransaction") /\ LockTime >= LockTimeThreshold
  /\ LockTime = call.blockTime /\ call.blockHeight > LockTime
  /\ Len(call.tx.TxIn) = MaxInputs /\ ~AllSequencesFinal
  /\ ~ret.value

\* the signature script ExtractCoinbaseHeight was given
SigScript == call.tx.TxIn[1].SignatureScript
StartsWith(script, prefix) ==
  Len(script) >= Len(prefix) /\ SubSeq(script, 1, Len(prefix)) = prefix
\* the first byte is no small-integer opcode: it announces a length
IsLengthByte(byte) == byte # OP_0 /\ (byte < OP_1 \/ byte > OP_16)
ClaimedHeights == {0, 1, 16, 17, 2 ^ 20, (2 ^ 30 - 1) * 2 + 1}

\* C20: ExtractCoinbaseHeight of a script that starts with the standard
\* encoding of a height H returns H without error, for the heights 0, 1,
\* 16, 17, 2^20 and 2^31-1 and for the heights at the edges of each
\* encoding in between; an empty script, and a script with fewer bytes
\* after its length byte than the byte announces, fail with
\* MissingCoinbaseHeight.
C20_LeftInverse ==
  Done("ExtractCoinbaseHeight") =>
    /\ \A h \in EncodedHeights \cup ClaimedHeights : \A asScriptNum \in BOOLEAN :
         StartsWith(SigScript, EncodeHeight(h, asScriptNum))
           => ret.err = NoError /\ ret.value = h
    /\ Len(SigScript) = 0 => ret.err = ruleError("ErrMissingCoinbaseHeight")
    /\ Len(SigScript) >= 1 /\ IsLengthByte(SigScript[1]) /\ Len(SigScript) - 1 < SigScript[1]
         => ret.err = ruleError("ErrMissingCoinbaseHeight")

\* the height 2^31-1 comes back from its four bytes
C20_Witness ==
  /\ Done("ExtractCoinbaseHeight")
  /\ SigScript = <<4, 255, 255, 255, 127>>
  /\ SigScript = EncodeHeight((2 ^ 30 - 1) * 2 + 1, TRUE)
  /\ ret.err = NoError /\ ret.value = (2 ^ 30 - 1) * 2 + 1

\* the two digits of a byte
Digits(byte) == <<hextable[byte \div 16 + 1], hextable[(byte % 16) + 1]>>
\* C26: Hash.String() is the text of 2 * HashSize digits that spells the
\* bytes of the hash from the last to the first and leaves the caller's hash
\* as it was; Decode of that text into a new hash gives the hash back byte
\* for byte; IsEqual of two hashes is true exactly when every byte matches
C26_HashTextRoundTrip ==
  /\ Done("Hash.String") =>
       /\ Len(ret.value.text) = 2 * HashSize
       /\ \A k \in 1..HashSize :
            <<ret.value.text[2 * k - 1], ret.value.text[2 * k]>>
              = Digits(call.hash[HashSize + 1 - k])
       /\ ret.value.hash = call.hash
  /\ (Done("Decode") /\ call.of # <<>>) =>
       /\ ret.err = NoError
       /\ \A k \in 1..HashSize : ret.value[k] = call.of[k]
  /\ (Done("Hash.IsEqual") /\ ~call.hash.nil /\ ~call.target.nil) =>
       (ret.value <=> \A k \in 1..HashSize : call.hash.bytes[k] = call.target.bytes[k])

\* a hash that is not its own reverse went through String and Decode
C26_Witness ==
  /\ Done("Decode")
  /\ call.of # <<>>
  /\ call.of[1] = 10 /\ call.of[HashSize] = 171
  /\ ret.value = call.of

\* the header's target is within the bounds and its hash is above it
HashAboveGoodTarget ==
  LET target == CompactToBig(call.block.Header.Bits) IN
  /\ target > 0 /\ target <= call.powLimit.value
  /\ call.block.Header.powHash > target

\* C28, as claimed: CheckBlockSanity called for a block whose target is
\* within the bounds and whose hash is above the target fails with HighHash
\* when DoNotCheckPow is false, and does not when DoNotCheckPow is true.
C28_DoNotCheckPowSuppresses ==
  (Done("CheckBlockSanity") /\ HashAboveGoodTarget) =>
    (ret.err = ruleError("ErrHighHash") <=> ~call.DoNotCheckPow)

\* the block of a checkBlockContext call, its height and its coinbase script
WantHeight == call.prevNode.height + 1
CoinbaseScript == call.block.Transactions[1].TxIn[1].SignatureScript
\* the script starts with a length byte and as many bytes as it announces
LengthPrefixed(script) ==
  Len(script) >= 1 /\ IsLengthByte(script[1]) /\ Len(script) - 1 >= script[1]
\* byte k of the little-endian form of a height, which fits four bytes
HeightByte(height, k) ==
  IF k > 4 THEN 0 ELSE (height \div (ByteValues ^ (k - 1))) % ByteValues
\* the bytes the script announces spell the height, every byte counted
SpellsHeight(script, height) ==
  \A k \in 1..script[1] : script[1 + k] = HeightByte(height, k)
\* the serialized height is asked for: version 2 or later, BIP0034 in
\* force, no fast add
HeightRequired ==
  /\ ~call.prevNode.nil
  /\ call.block.Header.Version >= 2
  /\ WantHeight >= BIP0034Height(call.b.net)
  /\ BFFastAdd \notin call.flags
  /\ Len(call.block.Transactions) > 0
\* the checks before the serialized height have passed
HeightCheckReached ==
  /\ checkBlockHeaderContext(call.b, call.block.Header, call.prevNode, call.flags)
       = NoError
  /\ call.b.csvState.err = NoError
  /\ ret.err # ruleError("ErrUnfinalizedTx")

\* C30, as claimed: where the serialized height is required, a block
\* whose coinbase script starts with a length-prefixed little-endian number
\* is accepted by checkBlockContext only if that number is parent+1, and
\* fails with BadCoinbaseHeight if it is any other number, a number of five
\* or more bytes that differs from parent+1 only above bit 31 included.
C30_SerializedHeightExact ==
  (Done("checkBlockContext") /\ HeightRequired /\ LengthPrefixed(CoinbaseScript)) =>
    /\ ret.err = NoError => SpellsHeight(CoinbaseScript, WantHeight)
    /\ (HeightCheckReached /\ ~SpellsHeight(CoinbaseScript, WantHeight))
         => ret.err = ruleError("ErrBadCoinbaseHeight")

\* ------------------------------------------------------------------------
\* CheckConnectBlockTemplate, called concurrently
\* ------------------------------------------------------------------------

MaxCallers == 2
Callers == 1..MaxCallers
\* the rest of the program, which connects blocks to the best chain under
\* the same lock
Writer == MaxCallers + 1
MaxWrites == 1

\* the tip at the start and the tip after a block was connected to it
TipNode(hash, height) ==
  [nil |-> FALSE, hash |-> hash, height |-> height, medianTime |-> ParentMedianTime]
FirstTip == TipNode(ParentHash, BIP0034HeightTest - 1)
SecondTip == TipNode(StrayHash, BIP0034HeightTest)

\* block templates: the proof of work is not done, so the hash is above the
\* target. The coinbase carries the height h or another, the merkle root
\* is right or wrong, or the block has no transaction.
TemplateCoinbase(h) ==
  [hash |-> NewCoinbaseId, LockTime |-> 0,
   TxIn |-> <<[PreviousOutPoint |-> NullOutpoint, Sequence |-> MaxUint32,
               SignatureScript |-> EncodeHeight(h, TRUE) \o <<0>>]>>,
   TxOut |-> <<PlainOut(1)>>, size |-> 1, sigOps |-> 0]
TemplateBlock(tipNode, transactions, root) ==
  [Header |-> [Version |-> serializedHeightVersion, PrevBlock |-> tipNode.hash,
               Bits |-> TargetOf(1, 1), powHash |-> CompactBase + 1,
               Timestamp |-> [sec |-> ParentMedianTime + 1, nsec |-> 0],
               MerkleRoot |-> "root", hash |-> OtherHash],
   height |-> tipNode.height + 1, Transactions |-> transactions,
   size |-> 1, weight |-> 1, calculatedMerkleRoot |-> root]
TemplateBlocks ==
  {TemplateBlock(tipNode, transactions, root) :
     tipNode \in {FirstTip, SecondTip}, root \in {"root", "other"},
     transactions \in {<<>>} \cup {<<TemplateCoinbase(h)>> :
                         h \in BIP0034HeightTest..(BIP0034HeightTest + 1)}}

NewWorker(blk) ==
  [pc |-> "start", block |-> blk, tip |-> NilNode, view |-> 0,
   node |-> NilNode, stages |-> <<>>, err |-> NoError]
TemplateInit ==
  /\ NoConnect
  /\ call = [fn |-> "CheckConnectBlockTemplate"]
  /\ loop = NoLoop /\ ret = NotReturned
  /\ chain = [chainLock |-> Nobody, tip |-> FirstTip, views |-> <<>>, writes |-> 0]
  /\ workers \in [Callers -> {NewWorker(blk) : blk \in TemplateBlocks}]

\* a lock that is given to whoever asks
AlwaysFree(chainLock) == TRUE
\* b.chainLock.Lock() returns once nobody holds the lock
CanLock(chainLock) == chainLock = Nobody
\* a comparison that finds every block on the tip
NeverDiffers(tipHash, prevBlock) == FALSE
\* tip.hash != header.PrevBlock
TipDiffers(tipHash, prevBlock) == tipHash # prevBlock

\* worker c goes on at p with the fields of w changed
Ran(w, stage, e) == [w EXCEPT !.stages = Append(@, [stage |-> stage, err |-> e])]
Goes(c, w) == workers' = [workers EXCEPT ![c] = w]
\* a stage returned e: the call goes on with the next stage, or returns e
\* through the deferred Unlock
After1(w, stage, e, next) ==
  IF e = NoError THEN [Ran(w, stage, e) EXCEPT !.pc = next]
  ELSE [Ran(w, stage, e) EXCEPT !.pc = "unlock", !.err = e]

Lock(c) ==
  /\ workers[c].pc = "start"
  /\ CanLock(chain.chainLock)
  /\ chain' = [chain EXCEPT !.chainLock = c]
  /\ Goes(c, [workers[c] EXCEPT !.pc = "tip"])

ReadTip(c) ==
  /\ workers[c].pc = "tip"
  /\ LET w == [workers[c] EXCEPT !.tip = chain.tip] IN
     IF TipDiffers(chain.tip.hash, w.block.Header.PrevBlock)
     THEN Goes(c, [w EXCEPT !.pc = "unlock", !.err = ruleError("ErrPrevBlockNotBest")])
     ELSE Goes(c, [w EXCEPT !.pc = "sanity"])
  /\ UNCHANGED chain

RunSanity(c) ==
  /\ workers[c].pc = "sanity"
  /\ LET w == workers[c] IN
     Goes(c, After1(w, "sanity",
                    checkBlockSanity(w.block, LimitOf(CompactBase), AdjustedTime,
                                     {BFNoPoWCheck}, FALSE, w.block.height),
                    "context"))
  /\ UNCHANGED chain

RunContext(c) ==
  /\ workers[c].pc = "context"
  /\ LET w == workers[c] IN
     Goes(c, After1(w, "context",
                    checkBlockContext(QuietChain, w.block, w.tip, {BFNoPoWCheck}, TRUE),
                    "view"))
  /\ UNCHANGED chain

\* NewBlockNode(&header, tip)
NewBlockNode(header, parent) ==
  [nil |-> FALSE, hash |-> header.hash, height |-> parent.height + 1,
   parent |-> parent.hash]
\* NewUtxoViewpoint, SetBestHash(&tip.hash) and NewBlockNode
NewView(c) ==
  /\ workers[c].pc = "view"
  /\ chain' = [chain EXCEPT !.views =
                 Append(@, [creator |-> c, bestHash |-> workers[c].tip.hash])]
  /\ Goes(c, [workers[c] EXCEPT !.view = Len(chain.views) + 1, !.pc = "connect",
                               !.node = NewBlockNode(workers[c].block.Header,
                                                     workers[c].tip)])

\* what checkConnectBlock returns for the new node: success, which moves the
\* best hash of the view to the node's, a rule violation, or a panic
ConnectOutcomes == {NoError, ruleError("ErrBadCoinbaseValue"), Panic}
RunConnect(c) ==
  /\ workers[c].pc = "connect"
  /\ \E e \in ConnectOutcomes :
       LET w == workers[c] IN
       /\ Goes(c, After1(w, "connect", e, "unlock"))
       /\ chain' = IF e = NoError
                   THEN [chain EXCEPT !.views[w.view].bestHash = w.block.Header.hash]
                   ELSE chain

\* the deferred b.chainLock.Unlock()
Unlock(c) ==
  /\ workers[c].pc = "unlock"
  /\ chain' = [chain EXCEPT !.chainLock = Nobody]
  /\ Goes(c, [workers[c] EXCEPT !.pc = "done"])

\* another part of the program takes the lock, connects a block to the best
\* chain and releases the lock
WriterLock ==
  /\ chain.writes < MaxWrites
  /\ CanLock(chain.chainLock)
  /\ chain' = [chain EXCEPT !.chainLock = Writer]
  /\ UNCHANGED workers
WriterConnect ==
  /\ chain.chainLock = Writer
  /\ chain' = [chain EXCEPT !.tip = SecondTip, !.writes = @ + 1, !.chainLock = Nobody]
  /\ UNCHANGED workers

Step(c) ==
  \/ Lock(c)
  \/ ReadTip(c)
  \/ RunSanity(c)
  \/ RunContext(c)
  \/ NewView(c)
  \/ RunConnect(c)
  \/ Unlock(c)

TemplateNext ==
  /\ \/ \E c \in Callers : Step(c)
     \/ WriterLock
     \/ WriterConnect
  /\ UNCHANGED <<call, loop, ret, connectVars>>

\* a goroutine that can take a step takes it in the end
TemplateSpec ==
  /\ TemplateInit
  /\ [][TemplateNext]_vars
  /\ \A c \in Callers : WF_vars(Step(c) /\ UNCHANGED <<call, loop, ret, connectVars>>)
  /\ WF_vars(WriterConnect /\ UNCHANGED <<call, loop, ret, connectVars>>)

\* worker c is between Lock and the deferred Unlock
InCall(c) == workers[c].pc \notin {"start", "done"}
TemplateCall == call.fn = "CheckConnectBlockTemplate"
AllReturned == \A c \in Callers : workers[c].pc = "done"

\* the safety half of C23
C23_Exclusive ==
  TemplateCall =>
    /\ \A c \in Callers : InCall(c) => chain.chainLock = c
    /\ \A c \in Callers : ~InCall(c) => chain.chainLock # c
    /\ \A c \in Callers : \A d \in Callers : c # d => ~(InCall(c) /\ InCall(d))
    /\ \A c \in Callers :
         workers[c].pc \in {"sanity", "context", "view", "connect"}
           => workers[c].tip = chain.tip
    /\ \A c \in Callers :
         workers[c].view # 0 =>
           /\ chain.views[workers[c].view].creator = c
           /\ \A d \in Callers \ {c} : workers[d].view # workers[c].view

\* C23: a call of CheckConnectBlockTemplate holds chainLock from before it
\* reads the tip until it returns and holds it no longer, whatever it
\* returns; no two calls are between Lock and Unlock at once, the tip a
\* call read stays the tip while it validates, and the view of a call was
\* created by it and is the view of no other call. Every call returns in
\* the end, and then nobody holds the lock.
C23_SafeForConcurrentAccess ==
  /\ []C23_Exclusive
  /\ <>[](AllReturned /\ chain.chainLock = Nobody)

\* one call has returned an error and released the lock, the other holds
\* the lock and connects the block to a view of its own
C23_Witness ==
  /\ TemplateCall
  /\ workers[1].pc = "done" /\ workers[1].err = ruleError("ErrBadCoinbaseHeight")
  /\ workers[2].pc = "connect" /\ chain.chainLock = 2
  /\ workers[2].view = 1 /\ chain.writes = 1

\* the stages of CheckConnectBlockTemplate in the order of the code
StageOrder == <<"sanity", "context", "connect">>
StagesRun(c) == workers[c].stages
OffTip(c) == workers[c].tip.hash # workers[c].block.Header.PrevBlock
CallReturned(c) == workers[c].pc = "done"
LastError(c) ==
  IF StagesRun(c) = <<>> THEN NoError ELSE StagesRun(c)[Len(StagesRun(c))].err

\* C24: a call of CheckConnectBlockTemplate with a block that is not built
\* on the tip it read returns ErrPrevBlockNotBest and has run no stage; any
\* other call runs block sanity, block context and checkConnectBlock in this
\* order, no stage after one that failed, the last on a new node whose
\* parent is the tip, and returns the error of the first stage that failed,
\* or success after all three
C24_TipThenStagesInOrder ==
  TemplateCall =>
    \A c \in Callers :
      /\ Len(StagesRun(c)) <= Len(StageOrder)
      /\ \A k \in 1..Len(StagesRun(c)) :
           /\ StagesRun(c)[k].stage = StageOrder[k]
           /\ k < Len(StagesRun(c)) => StagesRun(c)[k].err = NoError
      /\ StagesRun(c) # <<>> => ~OffTip(c)
      /\ (Len(StagesRun(c)) = Len(StageOrder) /\ ~workers[c].node.nil) =>
           /\ workers[c].node.parent = workers[c].tip.hash
           /\ workers[c].node.height = workers[c].tip.height + 1
      /\ CallReturned(c) =>
           IF OffTip(c)
           THEN workers[c].err = ruleError("ErrPrevBlockNotBest") /\ StagesRun(c) = <<>>
           ELSE /\ workers[c].err = LastError(c)
                /\ workers[c].err = NoError => Len(StagesRun(c)) = Len(StageOrder)

\* one call was turned away for a block that is not on the tip, the other
\* stopped at the block context after a clean sanity check
C24_Witness ==
  /\ TemplateCall /\ AllReturned
  /\ workers[1].err = ruleError("ErrPrevBlockNotBest") /\ StagesRun(1) = <<>>
  /\ Len(StagesRun(2)) = 2
  /\ workers[2].err = ruleError("ErrBadCoinbaseHeight")
====
